---- MODULE Spec2Model ----
(***************************************************************************)
(* Online attendance management system: the entity store (schema.sql), the *)
(* create endpoints, the attendance commit handler POST /api/attendance,   *)
(* the session listing, the reports and their exports of server.js.        *)
(*                                                                         *)
(* Strings that the code converts (parseInt, toLowerCase) are sequences of *)
(* one-character strings, so that the conversions are computed.            *)
(***************************************************************************)
EXTENDS Integers, Sequences, FiniteSets, Bags, TLC

\* ------------------------------------------------------------------ bounds
MaxClasses == 2
MaxStudents == 2
MaxSessions == 1
MaxBatch == 2
MaxCalls == 2
MaxUsers == 5
NumClients == 2
MaxTokens == 2
MaxTime == 4
MaxLen == 2
MaxCols == 2

Clients == 1..NumClients

\* ------------------------------------------------- JavaScript conversions
RECURSIVE SumOver(_, _)
SumOver(S, f) ==
    IF S = {} THEN 0
    ELSE LET x == CHOOSE y \in S : TRUE IN f[x] + SumOver(S \ {x}, f)

Digits == {"0", "1", "2", "3", "4", "5", "6", "7", "8", "9"}

DigitVal(c) ==
    CASE c = "0" -> 0 [] c = "1" -> 1 [] c = "2" -> 2 [] c = "3" -> 3
      [] c = "4" -> 4 [] c = "5" -> 5 [] c = "6" -> 6 [] c = "7" -> 7
      [] c = "8" -> 8 [] c = "9" -> 9

NaN == [nan |-> TRUE, val |-> 0]

isNaN(n) == n.nan

RECURSIVE DigitPrefix(_, _, _)
\* value of the longest prefix of digits of s from position i on, acc so far
DigitPrefix(s, i, acc) ==
    IF i > Len(s) \/ s[i] \notin Digits THEN acc
    ELSE DigitPrefix(s, i + 1, [n |-> acc.n + 1, v |-> acc.v * 10 + DigitVal(s[i])])

RECURSIVE SkipSpace(_, _)
SkipSpace(s, i) == IF i <= Len(s) /\ s[i] = " " THEN SkipSpace(s, i + 1) ELSE i

\* parseInt(value, 10): leading white space is skipped, then an optional sign,
\* then the longest run of digits; NaN when there is no digit
parseInt(s) ==
    LET i == SkipSpace(s, 1)
        neg == i <= Len(s) /\ s[i] = "-"
        j == IF i <= Len(s) /\ s[i] \in {"-", "+"} THEN i + 1 ELSE i
        d == DigitPrefix(s, j, [n |-> 0, v |-> 0])
    IN  IF d.n = 0 THEN NaN
        ELSE [nan |-> FALSE, val |-> IF neg THEN 0 - d.v ELSE d.v]

\* the test  !isNaN(id) && id > 0  of the handlers
IsPositiveInt(n) == ~isNaN(n) /\ n.val > 0

LowerChar(c) ==
    CASE c = "A" -> "a" [] c = "B" -> "b" [] c = "D" -> "d" [] c = "E" -> "e"
      [] c = "F" -> "f" [] c = "L" -> "l"
      [] c = "N" -> "n" [] c = "P" -> "p" [] c = "R" -> "r" [] c = "S" -> "s"
      [] c = "T" -> "t"
      [] OTHER -> c

\* faulty variant: the status is used as submitted
toLowerCase_Identity(s) == s

toLowerCase(s) == [i \in 1..Len(s) |-> LowerChar(s[i])]

present == <<"p", "r", "e", "s", "e", "n", "t">>
absent == <<"a", "b", "s", "e", "n", "t">>
validStatuses == {present, absent}

\* ------------------------------------------------------------ request inputs
DigitChar(k) == CHOOSE c \in Digits : DigitVal(c) = k

RECURSIVE String(_)
\* String(n) of a number n >= 0: its decimal digits
String(n) == IF n < 10 THEN <<DigitChar(n)>> ELSE String(n \div 10) \o <<DigitChar(n % 10)>>

\* ids as they arrive in a JSON body or a query string
RawIds(n) == {<<DigitChar(k)>> : k \in 1..n} \cup {<<"x">>}

StatusInputs == {present, <<"A", "b", "s", "e", "n", "t">>, <<"l", "a", "t", "e">>}

RecordInputs == [student_id : RawIds(MaxStudents), status : StatusInputs]

BatchInputs == UNION {[1..n -> RecordInputs] : n \in 0..MaxBatch}

\* ------------------------------------------------------------------- state
VARIABLES
    classes,     \* table classes: row id |-> [name]
    students,    \* table students: row id |-> [class_id]
    sessions,    \* table sessions: row id |-> [class_id]
    attendance,  \* table attendance, committed rows (a bag: the heap may hold equal rows)
    users,       \* table users: row id |-> [username, role, class_id, student_id], 0 for NULL
    clock,       \* the store's clock, read by CURRENT_TIMESTAMP
    calls,       \* number of POST /api/attendance requests received so far
    pc,          \* per client: where its POST /api/attendance handler stands
    body,        \* per client: req.body of the request being handled
    local,       \* per client: sessionIdInt, sessionClassId, loop index, pending 400 message
    tx,          \* per client: the open transaction (its timestamp and uncommitted writes)
    res,         \* per client: the response sent
    marks,       \* history: per (session, student), first commit time and latest committed status
    lastCommit,  \* history: session and batch of the latest commit that took effect
    auth,        \* the in-memory session store, the time, and the history of the tokens
    cell,        \* a value handed to csvEscape and the text it returned
    boot         \* initializeDatabase of db.js: where it stands and the database it works on

vars == <<classes, students, sessions, attendance, users, clock, calls, pc, body, local, tx, res,
          marks, lastCommit, boot, auth, cell>>

storeVars == <<classes, students, sessions, attendance, users>>
webVars == <<auth, cell>>
auxVars == <<boot, webVars>>
handlerVars == <<clock, calls, pc, body, local, tx, res, marks, lastCommit, auxVars>>

NoBody == [session_id |-> <<>>, records |-> <<>>]
NoLocal == [sessionIdInt |-> 0, sessionClassId |-> 0, i |-> 0, error |-> ""]
NoTx == [ts |-> 0, log |-> <<>>]
NoRes == [status |-> 0, error |-> ""]
NoCommit == [session_id |-> 0, records |-> <<>>]

\* ------------------------------------------------- initializeDatabase
\* schema.sql as the text db.js reads: its comment lines ("--"), its
\* statements and the semicolons that end them, in the order of the file
schemaSql ==
    << "--", "--", "--", "create classes", ";",
       "create students", ";", "create sessions", ";", "create attendance", ";",
       "--", "create users", ";",
       "--", "--", "insert class 1", ";", "setval classes", ";",
       "insert student 1", ";", "setval students", ";",
       "--", "insert user 1", ";", "setval users", ";",
       "insert user 2", ";", "setval users", ";",
       "insert user 3", ";", "setval users", ";",
       "--", "index attendance", ";", "index attendance", ";", "index students", ";",
       "index sessions", ";", "index sessions", ";",
       "index users", ";", "index users", ";", "index users", ";" >>

Tables == {"classes", "students", "sessions", "attendance", "users"}
SeedRows == {"class 1", "student 1", "user 1", "user 2", "user 3"}

RECURSIVE split(_, _)
\* text.split(sep): the pieces between the separators, the last one included
split(text, sep) ==
    LET n == CHOOSE k \in 1..(Len(text) + 1) :
                /\ k = Len(text) + 1 \/ text[k] = sep
                /\ \A j \in 1..(k - 1) : text[j] # sep
    IN  IF n > Len(text) THEN <<text>>
        ELSE <<SubSeq(text, 1, n - 1)>> \o split(SubSeq(text, n + 1, Len(text)), sep)

\* s.startsWith('--') of a trimmed piece
startsWithComment(piece) == piece # <<>> /\ piece[1] = "--"

\* schemaSql.split(';').map(s => s.trim()).filter(s => s.length > 0 && !s.startsWith('--'))
statements(text) ==
    SelectSeq(split(text, ";"), LAMBDA piece : Len(piece) > 0 /\ ~startsWithComment(piece))

\* what the store is asked to run for a piece: its lines that are not comments
sqlOf(piece) == SelectSeq(piece, LAMBDA line : line # "--")

\* the relations a statement needs to exist, and the rows its foreign keys reference
needsTables(sql) ==
    CASE sql = "create classes" -> {}
      [] sql = "create students" -> {"classes"}
      [] sql = "create sessions" -> {"classes"}
      [] sql = "create attendance" -> {"sessions", "students"}
      [] sql = "create users" -> {"classes", "students"}
      [] sql \in {"insert class 1", "setval classes"} -> {"classes"}
      [] sql \in {"insert student 1", "setval students", "index students"} -> {"students"}
      [] sql \in {"insert user 1", "insert user 2", "insert user 3", "setval users",
                  "index users", "alter users"} -> {"users"}
      [] sql = "index attendance" -> {"attendance"}
      [] sql = "index sessions" -> {"sessions"}

needsRows(sql) ==
    CASE sql = "insert student 1" -> {"class 1"}
      [] sql = "insert user 2" -> {"class 1"}
      [] sql = "insert user 3" -> {"class 1", "student 1"}
      [] OTHER -> {}

\* the database after the statement: CREATE TABLE IF NOT EXISTS,
\* INSERT ... ON CONFLICT (id) DO NOTHING
runSql(db, sql) ==
    CASE sql \in {"create " \o t : t \in Tables} ->
            [db EXCEPT !.tables = @ \cup {t \in Tables : sql = "create " \o t}]
      [] sql \in {"insert " \o r : r \in SeedRows} ->
            [db EXCEPT !.rows = @ \cup {r \in SeedRows : sql = "insert " \o r}]
      [] OTHER -> db

\* the error of a statement, "" when it runs
sqlError(db, aborted, sql, ok) ==
    IF aborted THEN "current transaction is aborted"
    ELSE IF ~ok THEN "connection terminated"
    ELSE IF ~(needsTables(sql) \subseteq db.tables) THEN "relation does not exist"
    ELSE IF ~(needsRows(sql) \subseteq db.rows) THEN "violates foreign key constraint"
    ELSE ""

\* the two versions of db.js: the second one ignores some statement errors
Versions == {"db.js", "part_000"}

\* isNonCritical of the second version
isNonCritical(error, sql) ==
    error = "relation does not exist" /\ sql \in {"setval classes", "setval students", "setval users"}

EmptyDb == [tables |-> {}, rows |-> {}]
SeededDb == [tables |-> Tables, rows |-> SeedRows]

\* the server is up: initializeDatabase has completed
BootReady == [pc |-> "ready", version |-> "db.js", i |-> 0, disk |-> SeededDb,
              live |-> SeededDb, aborted |-> FALSE, fault |-> FALSE, first |-> FALSE]

\* the session store is empty when the server starts; no value is being escaped
NoUser == [id |-> 0, username |-> <<>>, role |-> "", class_id |-> 0, student_id |-> 0]
NoReq == [kind |-> "", token |-> 0, status |-> 0, user |-> NoUser]
AuthInit ==
    auth = [sessions |-> <<>>, now |-> 1, next |-> 1, hashed |-> {},
            issued |-> <<>>, loggedOut |-> {}, req |-> NoReq]
NoCell == [cols |-> <<>>, done |-> FALSE, text |-> <<>>]
WebInit == AuthInit /\ cell = NoCell
AuxInit == boot = BootReady /\ WebInit

\* schema.sql seed rows of table users: admin, teacher1 (class 1), aditya (student 1)
SeedUsers ==
    << [username |-> <<"a", "d", "m", "i", "n">>, role |-> "admin",
        class_id |-> 0, student_id |-> 0],
       [username |-> <<"t", "e", "a", "c", "h", "e", "r", "1">>, role |-> "teacher",
        class_id |-> 1, student_id |-> 0],
       [username |-> <<"a", "d", "i", "t", "y", "a">>, role |-> "student",
        class_id |-> 1, student_id |-> 1] >>

\* schema.sql seed rows: class 1 'Class 12' and student 1 'aditya' of class 1
Init ==
    /\ classes = <<[name |-> "Class 12"]>>
    /\ students = <<[class_id |-> 1]>>
    /\ sessions = <<>>
    /\ attendance = EmptyBag
    /\ users = SeedUsers
    /\ clock = 0
    /\ calls = 0
    /\ pc = [p \in Clients |-> "idle"]
    /\ body = [p \in Clients |-> NoBody]
    /\ local = [p \in Clients |-> NoLocal]
    /\ tx = [p \in Clients |-> NoTx]
    /\ res = [p \in Clients |-> NoRes]
    /\ marks = {}
    /\ lastCommit = NoCommit
    /\ AuxInit

\* ------------------------------------------------------------ the tables
Range(s) == {s[i] : i \in 1..Len(s)}

\* the bag of the images of the rows of table B under F
MapBag(B, F(_)) ==
    LET rows == BagToSet(B)
    IN  [r2 \in {F(r) : r \in rows} |->
            SumOver({r \in rows : F(r) = r2}, [r \in rows |-> CopiesIn(r, B)])]

\* an uncommitted write of a transaction, applied to a table: an inserted row,
\* or an update of the columns e.set of the rows of the key
ApplyEntry(table, e) ==
    IF e.op = "insert"
    THEN table (+) SetToBag({[session_id |-> e.session_id, student_id |-> e.student_id,
                              status |-> e.status, marked_at |-> e.marked_at]})
    ELSE MapBag(table, LAMBDA r :
                    IF r.session_id = e.session_id /\ r.student_id = e.student_id
                    THEN [r EXCEPT !.status = IF "status" \in e.set THEN e.status ELSE @,
                                   !.marked_at = IF "marked_at" \in e.set
                                                 THEN e.marked_at ELSE @]
                    ELSE r)

RECURSIVE ApplyLog(_, _)
ApplyLog(table, log) ==
    IF log = <<>> THEN table
    ELSE ApplyLog(ApplyEntry(table, Head(log)), Tail(log))

\* the rows a statement of client p sees: the committed rows and p's own writes
View(p) == ApplyLog(attendance, tx[p].log)

\* faulty variant: a write locks the student's rows of every session
Locks_WholeStudent(p) ==
    {<<s, tx[p].log[i].student_id>> : s \in 1..Len(sessions), i \in 1..Len(tx[p].log)}

\* the rows (keys) a transaction has written and keeps locked until it ends
Locks(p) == {<<tx[p].log[i].session_id, tx[p].log[i].student_id>> : i \in 1..Len(tx[p].log)}

\* faulty variant: no unique index on (session_id, student_id)
ConflictRows_NoIndex(table, session_id, student_id) == {}

\* UNIQUE(session_id, student_id): the rows an insert of this key conflicts with
ConflictRows(table, session_id, student_id) ==
    {r \in BagToSet(table) : r.session_id = session_id /\ r.student_id = student_id}

\* the FOREIGN KEY and CHECK constraints of table attendance
AttendanceConstraints(session_id, student_id, status) ==
    /\ session_id \in 1..Len(sessions)
    /\ student_id \in 1..Len(students)
    /\ status \in validStatuses

\* faulty variant: ON CONFLICT ... DO NOTHING
upsertSql_DoNothing(table, session_id, student_id, status, now) ==
    [op |-> IF \E r \in BagToSet(table) :
                    r.session_id = session_id /\ r.student_id = student_id
            THEN "update" ELSE "insert",
     session_id |-> session_id, student_id |-> student_id,
     status |-> status, marked_at |-> now, set |-> {}]

\* faulty variant: ... DO UPDATE SET status = EXCLUDED.status, marked_at = CURRENT_TIMESTAMP
upsertSql_Touch(table, session_id, student_id, status, now) ==
    [op |-> IF \E r \in BagToSet(table) :
                    r.session_id = session_id /\ r.student_id = student_id
            THEN "update" ELSE "insert",
     session_id |-> session_id, student_id |-> student_id,
     status |-> status, marked_at |-> now, set |-> {"status", "marked_at"}]

\* INSERT ... VALUES ($1, $2, $3, CURRENT_TIMESTAMP)
\* ON CONFLICT(session_id, student_id) DO UPDATE SET status = EXCLUDED.status
upsertSql(table, session_id, student_id, status, now) ==
    IF ConflictRows(table, session_id, student_id) = {}
    THEN [op |-> "insert", session_id |-> session_id, student_id |-> student_id,
          status |-> status, marked_at |-> now, set |-> {}]
    ELSE [op |-> "update", session_id |-> session_id, student_id |-> student_id,
          status |-> status, marked_at |-> now, set |-> {"status"}]

\* ------------------------------------------------------ authentication
\* the roles of users; "" stands for a request without a live session token
RoleInputs == {"", "admin", "teacher", "student"}

\* requireAuth: 401 unless the token resolves to a user
requireAuth(role) == role # ""

\* faulty variant: only students are turned away
requireRole_Staff(roles, role) == role # "student"

\* faulty variant: every authenticated user passes
requireRole_Any(roles, role) == TRUE

\* requireRole(...roles): 403 unless the user's role is one of them
requireRole(roles, role) == role \in roles

\* ------------------------------------------------- creating the entities
\* the integer the store reads from a text parameter bound to an INTEGER
\* column: the whole text must be an optionally signed run of digits
\* (surrounding blanks allowed), otherwise the statement fails
pgInteger(s) ==
    LET i == SkipSpace(s, 1)
        neg == i <= Len(s) /\ s[i] = "-"
        j == IF i <= Len(s) /\ s[i] \in {"-", "+"} THEN i + 1 ELSE i
        d == DigitPrefix(s, j, [n |-> 0, v |-> 0])
    IN  IF d.n = 0 \/ SkipSpace(s, j + d.n) <= Len(s) THEN NaN
        ELSE [nan |-> FALSE, val |-> IF neg THEN 0 - d.v ELSE d.v]

ClassNameInputs == {"", "Class 11"}

\* faulty variant: the class is not looked up
classExists_Always(classIdInt) == TRUE

\* SELECT id FROM classes WHERE id = ?  returns a row
classExists(classIdInt) == classIdInt \in 1..Len(classes)

\* POST /api/classes: the answer and the table classes after it; ok tells
\* whether the store executes the handler's statement
postClasses(role, name, ok) ==
    IF ~requireAuth(role)
    THEN [status |-> 401, error |-> "Unauthorized", classes |-> classes]
    ELSE IF ~requireRole({"admin"}, role)
    THEN [status |-> 403, error |-> "Forbidden", classes |-> classes]
    ELSE IF name = ""
    THEN [status |-> 400, error |-> "Class name is required", classes |-> classes]
    ELSE IF ~ok
    THEN [status |-> 500, error |-> "Database error", classes |-> classes]
    ELSE [status |-> 201, error |-> "", classes |-> Append(classes, [name |-> name])]

CreateClass(role, name, ok) ==
    /\ Len(classes) < MaxClasses
    /\ classes' = postClasses(role, name, ok).classes
    /\ UNCHANGED <<students, sessions, attendance, users, handlerVars>>

StudentNameInputs == {"", "asha"}

\* POST /api/students
postStudents(role, name, class_id, ok) ==
    LET classIdInt == parseInt(class_id)
    IN  IF ~requireAuth(role)
        THEN [status |-> 401, error |-> "Unauthorized", students |-> students]
        ELSE IF ~requireRole({"admin"}, role)
        THEN [status |-> 403, error |-> "Forbidden", students |-> students]
        ELSE IF name = "" \/ class_id = <<>>
        THEN [status |-> 400, error |-> "Student name and class_id are required",
              students |-> students]
        ELSE IF ~IsPositiveInt(classIdInt)
        THEN [status |-> 400, error |-> "Invalid class_id", students |-> students]
        ELSE IF ~ok
        THEN [status |-> 500, error |-> "Database error", students |-> students]
        ELSE IF ~classExists(classIdInt.val)
        THEN [status |-> 400, error |-> "Invalid class_id: class does not exist",
              students |-> students]
        ELSE [status |-> 201, error |-> "",
              students |-> Append(students, [class_id |-> classIdInt.val])]

CreateStudent(role, name, class_id, ok) ==
    /\ Len(students) < MaxStudents
    /\ students' = postStudents(role, name, class_id, ok).students
    /\ UNCHANGED <<classes, sessions, attendance, users, handlerVars>>

DateInputs == {<<"2", "0", "2", "4", "-", "0", "1", "-", "1", "0">>,
               <<"2", "0", "2", "4", "-", "1", "-", "1", "0">>}

\* /^\d{4}-\d{2}-\d{2}$/
dateRegex(d) ==
    /\ Len(d) = 10
    /\ \A i \in {1, 2, 3, 4, 6, 7, 9, 10} : d[i] \in Digits
    /\ d[5] = "-" /\ d[8] = "-"

\* POST /api/sessions
postSessions(role, class_id, date, ok) ==
    LET classIdInt == parseInt(class_id)
    IN  IF ~requireAuth(role)
        THEN [status |-> 401, error |-> "Unauthorized", sessions |-> sessions]
        ELSE IF ~requireRole({"teacher"}, role)
        THEN [status |-> 403, error |-> "Forbidden", sessions |-> sessions]
        ELSE IF class_id = <<>> \/ date = <<>>
        THEN [status |-> 400, error |-> "class_id and date are required",
              sessions |-> sessions]
        ELSE IF ~IsPositiveInt(classIdInt)
        THEN [status |-> 400, error |-> "Invalid class_id", sessions |-> sessions]
        ELSE IF ~dateRegex(date)
        THEN [status |-> 400, error |-> "Invalid date format. Use YYYY-MM-DD",
              sessions |-> sessions]
        ELSE IF ~ok
        THEN [status |-> 500, error |-> "Database error", sessions |-> sessions]
        ELSE IF ~classExists(classIdInt.val)
        THEN [status |-> 400, error |-> "Invalid class_id: class does not exist",
              sessions |-> sessions]
        ELSE [status |-> 201, error |-> "",
              sessions |-> Append(sessions, [class_id |-> classIdInt.val])]

CreateSession(role, class_id, date, ok) ==
    /\ Len(sessions) < MaxSessions
    /\ sessions' = postSessions(role, class_id, date, ok).sessions
    /\ UNCHANGED <<classes, students, attendance, users, handlerVars>>

UsernameInputs == {<<>>, <<"t", "2">>, <<"t", "e", "a", "c", "h", "e", "r", "1">>,
                   <<"r", "a", "v", "i">>, <<"m", "i", "r", "a">>}
PasswordInputs == {"", "secret"}
TeacherClassInputs == {<<>>, <<"1">>, <<"1", "x">>, <<"9">>}

\* POST /api/teachers: the answer and the table users after it
postTeachers(role, username, password, class_id, ok) ==
    LET classIdInt == parseInt(class_id)
        unchanged(status, error) == [status |-> status, error |-> error, users |-> users]
    IN  IF ~requireAuth(role) THEN unchanged(401, "Unauthorized")
        ELSE IF ~requireRole({"admin"}, role) THEN unchanged(403, "Forbidden")
        ELSE IF username = <<>> \/ password = ""
        THEN unchanged(400, "username and password are required for a teacher account")
        ELSE IF Len(username) < 3 \/ Len(username) > 50
        THEN unchanged(400, "Username must be between 3 and 50 characters")
        ELSE IF ~ok THEN unchanged(500, "Database error")
        ELSE IF \E u \in 1..Len(users) : users[u].username = username
        THEN unchanged(400, "Username already exists")
        ELSE IF class_id # <<>> /\ ~IsPositiveInt(classIdInt)
        THEN unchanged(400, "Invalid class_id")
        ELSE IF class_id # <<>> /\ ~classExists(classIdInt.val)
        THEN unchanged(400, "Invalid class_id: class does not exist")
        \* the INSERT binds the class_id of the body as submitted
        ELSE IF class_id # <<>> /\ isNaN(pgInteger(class_id))
        THEN unchanged(500, "Database error")
        ELSE [status |-> 201, error |-> "",
              users |-> Append(users,
                          [username |-> username, role |-> "teacher",
                           class_id |-> IF class_id = <<>> THEN 0
                                        ELSE pgInteger(class_id).val,
                           student_id |-> 0])]

CreateTeacher(role, username, password, class_id, ok) ==
    /\ Len(users) < MaxUsers
    /\ users' = postTeachers(role, username, password, class_id, ok).users
    /\ UNCHANGED <<classes, students, sessions, attendance, handlerVars>>

\* --------------------------------------------------- POST /api/attendance
\* records.map(r => parseInt(r.student_id, 10)).filter(id => !isNaN(id) && id > 0)
studentIds(records) ==
    LET ids == SelectSeq([i \in 1..Len(records) |-> parseInt(records[i].student_id)],
                         IsPositiveInt)
    IN  [i \in 1..Len(ids) |-> ids[i].val]

\* faulty variant: the statuses are not checked before the membership query
invalidRecords_None(records) == <<>>

\* records.filter(r => !validStatuses.includes(String(r.status).toLowerCase()))
invalidRecords(records) ==
    SelectSeq(records, LAMBDA r : toLowerCase(r.status) \notin validStatuses)

\* faulty variant: the query without  AND class_id = ...
checkRows_AnyClass(ids, sessionClassId) ==
    {id \in 1..Len(students) : id \in Range(ids)}

\* SELECT id FROM students WHERE id IN (...studentIds) AND class_id = sessionClassId
checkRows(ids, sessionClassId) ==
    {id \in 1..Len(students) : id \in Range(ids) /\ students[id].class_id = sessionClassId}

\* faulty variant: the test  checkResult.rows.length === 0
checkPasses_Some(ids, sessionClassId) ==
    \E id \in 1..Len(students) : id \in Range(ids) /\ students[id].class_id = sessionClassId

\* the test on checkResult.rows.length
checkPasses(ids, sessionClassId) == Cardinality(checkRows(ids, sessionClassId)) = Len(ids)

validRecords(records) ==
    SelectSeq(records, LAMBDA rec : /\ IsPositiveInt(parseInt(rec.student_id))
                                    /\ toLowerCase(rec.status) \in validStatuses)

Respond(p, status, error) ==
    /\ pc' = [pc EXCEPT ![p] = "done"]
    /\ res' = [res EXCEPT ![p] = [status |-> status, error |-> error]]
    /\ body' = [body EXCEPT ![p] = NoBody]
    /\ local' = [local EXCEPT ![p] = NoLocal]
    /\ tx' = [tx EXCEPT ![p] = NoTx]

\* a query of the transaction threw: control goes to the catch block
Throw(p) ==
    /\ pc' = [pc EXCEPT ![p] = "catch"]
    /\ UNCHANGED <<body, local, tx, res>>

\* a validation failed: ROLLBACK is issued, then the 400 response
Reject(p, error) ==
    /\ pc' = [pc EXCEPT ![p] = "rollback"]
    /\ local' = [local EXCEPT ![p].error = error]
    /\ UNCHANGED <<body, tx, res>>

\* the request arrives: requireAuth, requireRole('teacher') and the checks of
\* the body made before the store is used
Receive(p, role, session_id, records) ==
    /\ pc[p] \in {"idle", "done", "hung"}
    /\ calls < MaxCalls
    /\ calls' = calls + 1
    /\ IF ~requireAuth(role)
       THEN Respond(p, 401, "Unauthorized")
       ELSE IF ~requireRole({"teacher"}, role)
       THEN Respond(p, 403, "Forbidden")
       ELSE IF session_id = <<>> \/ Len(records) = 0
       THEN Respond(p, 400, "session_id and an array of records are required")
       ELSE IF ~IsPositiveInt(parseInt(session_id))
       THEN Respond(p, 400, "Invalid session_id")
       ELSE /\ pc' = [pc EXCEPT ![p] = "connect"]
            /\ body' = [body EXCEPT ![p] = [session_id |-> session_id, records |-> records]]
            /\ local' = [local EXCEPT ![p] =
                            [NoLocal EXCEPT !.sessionIdInt = parseInt(session_id).val]]
            /\ res' = [res EXCEPT ![p] = NoRes]
            /\ UNCHANGED tx
    /\ UNCHANGED <<auxVars, storeVars, clock, marks, lastCommit>>

\* const client = await db.connect(): outside the try block, so a failure
\* rejects the promise of the handler. What follows is the framework's: it
\* either ignores the rejection, and the request gets no response
\* ("unhandled"), or forwards it to its error handler, which answers 500
\* ("forwarded"). No connection was acquired, so none is released.
Connect(p, outcome) ==
    /\ pc[p] = "connect"
    /\ CASE outcome = "ok" ->
              /\ pc' = [pc EXCEPT ![p] = "begin"]
              /\ UNCHANGED <<body, local, tx, res>>
         [] outcome = "unhandled" ->
              /\ pc' = [pc EXCEPT ![p] = "hung"]
              /\ body' = [body EXCEPT ![p] = NoBody]
              /\ local' = [local EXCEPT ![p] = NoLocal]
              /\ UNCHANGED <<tx, res>>
         [] outcome = "forwarded" ->
              Respond(p, 500, "Internal Server Error")
    /\ UNCHANGED <<auxVars, storeVars, clock, calls, marks, lastCommit>>

\* await client.query('BEGIN')
Begin(p, ok) ==
    /\ pc[p] = "begin"
    /\ IF ok
       THEN /\ clock' = clock + 1
            /\ tx' = [tx EXCEPT ![p] = [ts |-> clock + 1, log |-> <<>>]]
            /\ pc' = [pc EXCEPT ![p] = "session"]
            /\ UNCHANGED <<body, local, res>>
       ELSE /\ Throw(p)
            /\ UNCHANGED clock
    /\ UNCHANGED <<auxVars, storeVars, calls, marks, lastCommit>>

\* SELECT class_id FROM sessions WHERE id = ?, then the checks made on the
\* records before the next query
SessionLookup(p, ok) ==
    /\ pc[p] = "session"
    /\ IF ~ok THEN Throw(p)
       ELSE IF local[p].sessionIdInt \notin 1..Len(sessions)
       THEN Reject(p, "Invalid session_id")
       ELSE IF Len(studentIds(body[p].records)) = 0
       THEN Reject(p, "No valid student_ids provided")
       ELSE IF Len(invalidRecords(body[p].records)) > 0
       THEN Reject(p, "Invalid status values. Must be \"present\" or \"absent\"")
       ELSE /\ pc' = [pc EXCEPT ![p] = "check"]
            /\ local' = [local EXCEPT ![p].sessionClassId =
                            sessions[local[p].sessionIdInt].class_id]
            /\ UNCHANGED <<body, tx, res>>
    /\ UNCHANGED <<auxVars, storeVars, clock, calls, marks, lastCommit>>

\* the membership query, then the filter of the valid records
MembershipCheck(p, ok) ==
    /\ pc[p] = "check"
    /\ IF ~ok THEN Throw(p)
       ELSE IF ~checkPasses(studentIds(body[p].records), local[p].sessionClassId)
       THEN Reject(p, "Some students do not belong to this session's class")
       ELSE IF Len(validRecords(body[p].records)) = 0
       THEN Reject(p, "No valid records to save")
       ELSE /\ pc' = [pc EXCEPT ![p] = "upsert"]
            /\ local' = [local EXCEPT ![p].i = 1]
            /\ UNCHANGED <<body, tx, res>>
    /\ UNCHANGED <<auxVars, storeVars, clock, calls, marks, lastCommit>>

\* the record the loop  for (const rec of validRecords)  is at
rec(p) == validRecords(body[p].records)[local[p].i]

\* faulty variant: a statement does not wait for the row lock of another transaction
Blockers_None(p) == {}

\* the clients whose uncommitted write of the same row the next upsert waits for
Blockers(p) ==
    IF pc[p] # "upsert" THEN {}
    ELSE {q \in Clients \ {p} :
            <<local[p].sessionIdInt, parseInt(rec(p).student_id).val>> \in Locks(q)}

RECURSIVE WaitsFor(_, _)
WaitsFor(S, n) ==
    IF n = 0 THEN S ELSE WaitsFor(S \cup UNION {Blockers(q) : q \in S}, n - 1)

\* the history of the marks, as the batch of a commit states it
RECURSIVE Marked(_, _, _, _)
Marked(m, session_id, recs, now) ==
    IF recs = <<>> THEN m
    ELSE LET student_id == parseInt(Head(recs).student_id).val
             old == {x \in m : x.session_id = session_id /\ x.student_id = student_id}
             new == [session_id |-> session_id, student_id |-> student_id,
                     first |-> IF old = {} THEN now ELSE (CHOOSE x \in old : TRUE).first,
                     status |-> toLowerCase(Head(recs).status)]
         IN  Marked((m \ old) \cup {new}, session_id, Tail(recs), now)

\* the transaction of p takes effect
Applied(p) ==
    /\ attendance' = View(p)
    /\ marks' = Marked(marks, local[p].sessionIdInt, validRecords(body[p].records), tx[p].ts)
    /\ lastCommit' = [session_id |-> local[p].sessionIdInt, records |-> body[p].records]

\* await client.query(upsertSql, [sessionIdInt, studentId, status])
Upsert(p, ok) ==
    /\ pc[p] = "upsert"
    /\ LET studentId == parseInt(rec(p).student_id).val
           status == toLowerCase(rec(p).status)
       IN  IF ok /\ AttendanceConstraints(local[p].sessionIdInt, studentId, status)
           THEN /\ Blockers(p) = {}
                /\ tx' = [tx EXCEPT ![p].log =
                            Append(@, upsertSql(View(p), local[p].sessionIdInt, studentId,
                                                status, tx[p].ts))]
                /\ IF local[p].i < Len(validRecords(body[p].records))
                   THEN /\ local' = [local EXCEPT ![p].i = @ + 1]
                        /\ UNCHANGED pc
                   ELSE /\ pc' = [pc EXCEPT ![p] = "commit"]
                        /\ UNCHANGED local
                /\ UNCHANGED <<body, res>>
           ELSE Throw(p)
    /\ UNCHANGED <<auxVars, storeVars, clock, calls, marks, lastCommit>>

\* the store ends a cycle of waiting transactions by failing the statement of one
DeadlockDetected(p) ==
    /\ pc[p] = "upsert"
    /\ p \in WaitsFor(Blockers(p), NumClients)
    /\ Throw(p)
    /\ UNCHANGED <<auxVars, storeVars, clock, calls, marks, lastCommit>>

\* await client.query('COMMIT'), then the 201 response and client.release().
\* A failed COMMIT either took no effect or took effect before the failure.
Commit(p, outcome) ==
    /\ pc[p] = "commit"
    /\ CASE outcome = "ok" ->
              /\ Applied(p)
              /\ Respond(p, 201, "")
         [] outcome = "failed" ->
              /\ Throw(p)
              /\ UNCHANGED <<attendance, marks, lastCommit>>
         [] outcome = "lost" ->
              /\ Applied(p)
              /\ pc' = [pc EXCEPT ![p] = "catch"]
              /\ tx' = [tx EXCEPT ![p].log = <<>>]
              /\ UNCHANGED <<body, local, res>>
    /\ UNCHANGED <<auxVars, classes, students, sessions, users, clock, calls>>

\* await client.query('ROLLBACK') of a failed validation, then the 400
\* response and client.release()
ValidationRollback(p, ok) ==
    /\ pc[p] = "rollback"
    /\ IF ok THEN Respond(p, 400, local[p].error) ELSE Throw(p)
    /\ UNCHANGED <<auxVars, storeVars, clock, calls, marks, lastCommit>>

\* faulty variant: the upserts done before the failure stay in the table
Catch_KeepsWrites(p) ==
    /\ pc[p] = "catch"
    /\ Respond(p, 500, "Database error")
    /\ attendance' = ApplyLog(attendance, tx[p].log)
    /\ UNCHANGED <<auxVars, classes, students, sessions, users, clock, calls, marks, lastCommit>>

\* catch: await client.query('ROLLBACK').catch(() => {}), handleDbError, and
\* client.release(); the uncommitted writes are gone whether or not the
\* ROLLBACK statement itself succeeds
Catch(p) ==
    /\ pc[p] = "catch"
    /\ Respond(p, 500, "Database error")
    /\ UNCHANGED <<auxVars, storeVars, clock, calls, marks, lastCommit>>

\* ------------------------------------- GET /api/reports/summary-by-class
\* FROM students st LEFT JOIN attendance a ON a.student_id = st.id
\*                  LEFT JOIN sessions sess ON sess.id = a.session_id AND ...
\* WHERE st.class_id = ? : the joined rows of student st are its attendance
\* rows, each with at most one session, or one row of NULLs when it has none
NullRow == [session_id |-> 0, student_id |-> 0, status |-> <<>>, marked_at |-> 0]

\* faulty variant: JOIN attendance instead of LEFT JOIN attendance
joinedRows_Inner(student_id) ==
    LET mine == {r \in BagToSet(attendance) : r.student_id = student_id}
    IN  [r \in mine |-> CopiesIn(r, attendance)]

joinedRows(student_id) ==
    LET rows == BagToSet(attendance)
        mine == {r \in rows : r.student_id = student_id}
    IN  IF mine = {} THEN SetToBag({NullRow})
        ELSE [r \in mine |-> CopiesIn(r, attendance)]

\* GROUP BY st.id, st.name, st.roll_number: one group per student of the class
\* that has joined rows
summaryGroups(classIdInt) ==
    {id \in 1..Len(students) :
        students[id].class_id = classIdInt /\ joinedRows(id) # EmptyBag}

\* faulty variant: the total is the number of sessions of the student's class
summaryTotal_ClassSessions(student_id) ==
    Cardinality({sid \in 1..Len(sessions) :
                    sessions[sid].class_id = students[student_id].class_id})

\* COUNT(DISTINCT a.session_id): NULLs are not counted
summaryTotal(student_id) ==
    Cardinality({r.session_id : r \in BagToSet(joinedRows(student_id))}
                    \ {NullRow.session_id})

\* faulty variant: COUNT(*) in place of the SUM over the present rows
summaryPresents_CountAll(student_id) ==
    LET j == joinedRows(student_id)
    IN  SumOver(BagToSet(j), [r \in BagToSet(j) |-> j[r]])

\* SUM(CASE WHEN a.status = 'present' THEN 1 ELSE 0 END)
summaryPresents(student_id) ==
    LET j == joinedRows(student_id)
    IN  SumOver(BagToSet(j), [r \in BagToSet(j) |-> IF r.status = present THEN j[r] ELSE 0])

summarySql(classIdInt) ==
    {[student_id |-> id,
      total |-> summaryTotal(id),
      presents |-> summaryPresents(id),
      absents |-> summaryTotal(id) - summaryPresents(id)] : id \in summaryGroups(classIdInt)}

\* faulty variant: the handler without the test of the role
summaryByClass_AnyRole(role, class_id) ==
    IF class_id = <<>>
    THEN [status |-> 400, error |-> "class_id is required", rows |-> {}]
    ELSE IF ~IsPositiveInt(parseInt(class_id))
    THEN [status |-> 400, error |-> "Invalid class_id", rows |-> {}]
    ELSE [status |-> 200, error |-> "", rows |-> summarySql(parseInt(class_id).val)]

\* the handler (after requireAuth): the checks of class_id and of the role,
\* then the rows of the query
summaryByClass(role, class_id) ==
    IF class_id = <<>>
    THEN [status |-> 400, error |-> "class_id is required", rows |-> {}]
    ELSE IF ~IsPositiveInt(parseInt(class_id))
    THEN [status |-> 400, error |-> "Invalid class_id", rows |-> {}]
    ELSE IF role = "student"
    THEN [status |-> 403, error |-> "Forbidden", rows |-> {}]
    ELSE [status |-> 200, error |-> "", rows |-> summarySql(parseInt(class_id).val)]

\* ------------------------------------------------------ student reports
\* the user a token resolves to (createSession's safeUser), 0 for null
UserInputs == [role : {"admin", "teacher", "student"},
               class_id : 0..MaxClasses, student_id : 0..MaxStudents]

StudentIdInputs == RawIds(MaxStudents + 1) \cup {<<>>, <<"0", "1">>}

\* faulty variant: only the presence of the principal's student_id is tested
isOwnReport_HasId(user, idText) == user.student_id # 0

\* !(!user.student_id || String(user.student_id) !== idText)
isOwnReport(user, idText) == user.student_id # 0 /\ String(user.student_id) = idText

\* faulty variant: the query reads the uncommitted writes of a transaction in flight
studentReportSql_Dirty(studentIdInt) ==
    LET p == CHOOSE c \in Clients : \A q \in Clients : Len(tx[c].log) >= Len(tx[q].log)
    IN  {[session_id |-> r.session_id, status |-> r.status, marked_at |-> r.marked_at,
          class_id |-> sessions[r.session_id].class_id] :
            r \in {r \in BagToSet(View(p)) :
                      r.student_id = studentIdInt /\ r.session_id \in 1..Len(sessions)}}

\* SELECT ... FROM attendance a JOIN sessions sess JOIN classes c
\* WHERE a.student_id = ?: the rows, without their order
studentReportSql(studentIdInt) ==
    {[session_id |-> r.session_id, status |-> r.status, marked_at |-> r.marked_at,
      class_id |-> sessions[r.session_id].class_id] :
        r \in {r \in BagToSet(attendance) :
                  r.student_id = studentIdInt /\ r.session_id \in 1..Len(sessions)}}

\* GET /api/reports/by-student (after requireAuth)
reportByStudent(user, student_id) ==
    LET studentIdInt == parseInt(student_id)
        none(status, error) == [status |-> status, error |-> error, rows |-> {}]
        runQuery == [status |-> 200, error |-> "", rows |-> studentReportSql(studentIdInt.val)]
    IN  IF student_id = <<>> THEN none(400, "student_id is required")
        ELSE IF ~IsPositiveInt(studentIdInt) THEN none(400, "Invalid student_id")
        ELSE IF user.role = "admin" THEN runQuery
        ELSE IF user.role = "student"
        THEN IF ~isOwnReport(user, String(studentIdInt.val))
             THEN none(403, "Forbidden: You can only view your own attendance")
             ELSE runQuery
        ELSE IF user.role = "teacher" THEN runQuery
        ELSE none(403, "Forbidden")

\* ------------------------------------------ GET /api/attendance/by-session
\* SELECT ... FROM attendance a JOIN students s JOIN sessions sess JOIN classes c
\* WHERE a.session_id = ?: the rows, without their order
bySessionSql(session_id) ==
    {[student_id |-> r.student_id, status |-> r.status, marked_at |-> r.marked_at] :
        r \in {r \in BagToSet(attendance) :
                  /\ r.session_id = session_id
                  /\ r.student_id \in 1..Len(students)
                  /\ r.session_id \in 1..Len(sessions)}}

\* the handler (after requireAuth)
attendanceBySession(role, session_id) ==
    IF ~requireRole({"admin", "teacher"}, role)
    THEN [status |-> 403, error |-> "Forbidden", rows |-> {}]
    ELSE IF session_id = <<>>
    THEN [status |-> 400, error |-> "session_id is required", rows |-> {}]
    ELSE IF isNaN(pgInteger(session_id))
    THEN [status |-> 500, error |-> "Database error", rows |-> {}]
    ELSE IF pgInteger(session_id).val \notin 1..Len(sessions)
    THEN [status |-> 400, error |-> "Invalid session_id", rows |-> {}]
    ELSE [status |-> 200, error |-> "", rows |-> bySessionSql(pgInteger(session_id).val)]

\* -------------------------------------------------------- session listing
\* faulty variant: the class asked for is the filter for every role
sessionsWhere_Requested(user, class_id) == class_id

\* the parameter of the filter  s.class_id = $1  that the handler builds,
\* <<>> when it builds none
sessionsWhere(user, class_id) ==
    IF user.role \in {"admin", "teacher"} THEN class_id
    ELSE IF user.role = "student" THEN String(user.class_id)
    ELSE <<>>

\* GET /api/sessions (after requireAuth): the rows, without their order
getSessions(user, class_id) ==
    LET where == sessionsWhere(user, class_id)
        rows(S) == [status |-> 200, error |-> "",
                    rows |-> {[id |-> sid, class_id |-> sessions[sid].class_id] : sid \in S}]
    IN  IF user.role = "student" /\ user.class_id = 0 THEN rows({})
        ELSE IF where = <<>> THEN rows(1..Len(sessions))
        ELSE IF isNaN(pgInteger(where))
        THEN [status |-> 500, error |-> "Database error", rows |-> {}]
        ELSE rows({sid \in 1..Len(sessions) :
                      sessions[sid].class_id = pgInteger(where).val})

\* ------------------------------------------------------------- exports
csv == <<"c", "s", "v">>
pdf == <<"p", "d", "f">>

\* a query parameter that the request does not carry
undefined == <<"undefined">>

\* the format parameter as it arrives in the query string
FormatInputs == {undefined, csv, pdf, <<"P", "D", "F">>, <<>>, <<"x", "m", "l">>}

\* const { ..., format = 'csv' } = req.query
formatOrDefault(format) == IF format = undefined THEN csv ELSE format

\* if (format === 'pdf') sendPdf else sendCsv
exportKind(format) == IF format = pdf THEN "pdf" ELSE "csv"

\* FROM students st LEFT JOIN sessions sess ON sess.class_id = st.class_id
\* LEFT JOIN attendance a ON a.student_id = st.id AND a.session_id = sess.id:
\* the joined rows of one student, as the bag of their (sess.id, a.status)
exportJoinedRows(student_id) ==
    LET mySessions == {sid \in 1..Len(sessions) :
                          sessions[sid].class_id = students[student_id].class_id}
        marksOf(sid) == {r \in BagToSet(attendance) :
                            r.student_id = student_id /\ r.session_id = sid}
        count(c) == IF c.status = NullRow.status
                    THEN IF marksOf(c.sess_id) = {} THEN 1 ELSE 0
                    ELSE LET same == {r \in marksOf(c.sess_id) : r.status = c.status}
                         IN  SumOver(same, [r \in same |-> CopiesIn(r, attendance)])
        cand == {[sess_id |-> sid, status |-> st] :
                    sid \in mySessions, st \in {present, absent, NullRow.status}}
    IN  IF mySessions = {}
        THEN SetToBag({[sess_id |-> NullRow.session_id, status |-> NullRow.status]})
        ELSE [c \in {c \in cand : count(c) > 0} |-> count(c)]

\* COUNT(sess.id) AS total
exportTotal(student_id) ==
    LET j == exportJoinedRows(student_id)
        rows == BagToSet(j)
    IN  SumOver(rows, [r \in rows |-> IF r.sess_id # NullRow.session_id THEN j[r] ELSE 0])

\* SUM(CASE WHEN a.status = 'present' THEN 1 ELSE 0 END) AS presents
exportPresents(student_id) ==
    LET j == exportJoinedRows(student_id)
        rows == BagToSet(j)
    IN  SumOver(rows, [r \in rows |-> IF r.status = present THEN j[r] ELSE 0])

exportSummarySql(classIdInt) ==
    {[student_id |-> id,
      total |-> exportTotal(id),
      presents |-> exportPresents(id),
      absents |-> exportTotal(id) - exportPresents(id)] :
        id \in {id \in 1..Len(students) : students[id].class_id = classIdInt}}

\* sendClassSummaryCsv / sendClassSummaryPdf: the figures of one rendered line
\* (the student is named by its id)
summaryLine(r) == [student_id |-> r.student_id, presents |-> r.presents, total |-> r.total]

\* GET /api/reports/summary-by-class/export (after requireAuth): class_id is
\* bound to the query as submitted
exportSummaryByClass(role, class_id, format) ==
    LET none(status, error) ==
            [status |-> status, error |-> error, kind |-> "json", lines |-> {}]
    IN  IF class_id = <<>> THEN none(400, "class_id is required")
        ELSE IF role = "student" THEN none(403, "Forbidden")
        ELSE IF isNaN(pgInteger(class_id)) THEN none(500, "Database error")
        ELSE [status |-> 200, error |-> "", kind |-> exportKind(formatOrDefault(format)),
              lines |-> {summaryLine(r) : r \in exportSummarySql(pgInteger(class_id).val)}]

\* faulty variant: the export does not look at the format for a student
studentFormatAllowed_Any(format) == TRUE

\* !(format && String(format).toLowerCase() !== 'pdf')
studentFormatAllowed(format) == format = <<>> \/ toLowerCase(format) = pdf

\* GET /api/reports/by-student/export (after requireAuth): student_id is
\* compared and bound to the query as submitted
exportByStudent(user, student_id, format) ==
    LET fmt == formatOrDefault(format)
        none(status, error) ==
            [status |-> status, error |-> error, kind |-> "json", rows |-> {}]
        runQuery ==
            IF isNaN(pgInteger(student_id)) THEN none(500, "Database error")
            ELSE [status |-> 200, error |-> "", kind |-> exportKind(fmt),
                  rows |-> studentReportSql(pgInteger(student_id).val)]
    IN  IF student_id = <<>> THEN none(400, "student_id is required")
        ELSE IF user.role = "admin" THEN runQuery
        ELSE IF user.role = "student"
        THEN IF ~isOwnReport(user, student_id) THEN none(403, "Forbidden")
             ELSE IF ~studentFormatAllowed(fmt)
             THEN none(400, "Students can only download PDF reports.")
             ELSE runQuery
        ELSE IF user.role = "teacher" THEN runQuery
        ELSE none(403, "Forbidden")

\* ------------------------------------------------------ the specifications
\* the steps of the handler of client p after the request is received
Handler(p) ==
    \/ \E outcome \in {"ok", "unhandled", "forwarded"} : Connect(p, outcome)
    \/ \E ok \in BOOLEAN : Begin(p, ok)
    \/ \E ok \in BOOLEAN : SessionLookup(p, ok)
    \/ \E ok \in BOOLEAN : MembershipCheck(p, ok)
    \/ \E ok \in BOOLEAN : Upsert(p, ok)
    \/ \E outcome \in {"ok", "failed", "lost"} : Commit(p, outcome)
    \/ \E ok \in BOOLEAN : ValidationRollback(p, ok)
    \/ Catch(p)

\* Spec: the entities are created through the API and one client sends
\* attendance requests of every shape, one after the other
Next ==
    \/ \E name \in ClassNameInputs, ok \in BOOLEAN : CreateClass("admin", name, ok)
    \/ \E class_id \in RawIds(MaxClasses) \cup {<<>>}, ok \in BOOLEAN :
            CreateStudent("admin", "asha", class_id, ok)
    \/ \E class_id \in RawIds(MaxClasses) \cup {<<>>}, date \in DateInputs, ok \in BOOLEAN :
            CreateSession("teacher", class_id, date, ok)
    \/ \E role \in RoleInputs, session_id \in RawIds(MaxSessions) \cup {<<>>},
          records \in BatchInputs : Receive(1, role, session_id, records)
    \/ Handler(1)

Spec == Init /\ [][Next]_vars

\* SpecConc: the store holds one class of two students with two sessions; the
\* clients send attendance requests for these, and their handlers interleave
ConcRecordInputs == [student_id : {<<"1">>, <<"2">>}, status : {present, absent}]
ConcBatchInputs == UNION {[1..n -> ConcRecordInputs] : n \in 1..MaxBatch}

InitConc ==
    /\ classes = <<[name |-> "Class 12"]>>
    /\ students = <<[class_id |-> 1], [class_id |-> 1]>>
    /\ sessions = <<[class_id |-> 1], [class_id |-> 1]>>
    /\ attendance = EmptyBag
    /\ users = SeedUsers
    /\ clock = 0
    /\ calls = 0
    /\ pc = [p \in Clients |-> "idle"]
    /\ body = [p \in Clients |-> NoBody]
    /\ local = [p \in Clients |-> NoLocal]
    /\ tx = [p \in Clients |-> NoTx]
    /\ res = [p \in Clients |-> NoRes]
    /\ marks = {}
    /\ lastCommit = NoCommit
    /\ AuxInit

NextConc ==
    \/ \E p \in Clients, session_id \in {<<"1">>, <<"2">>}, records \in ConcBatchInputs :
            Receive(p, "teacher", session_id, records)
    \/ \E p \in Clients : Handler(p)
    \/ \E p \in Clients : DeadlockDetected(p)

SpecConc == InitConc /\ [][NextConc]_vars

\* the steps of initializeDatabase
BootStep(next) == boot' = [next EXCEPT !.first = boot.first, !.version = boot.version]

\* the rows of the tables classes, students and users that a database holds
classesOf(db) == IF "class 1" \in db.rows THEN <<[name |-> "Class 12"]>> ELSE <<>>
studentsOf(db) == IF "student 1" \in db.rows THEN <<[class_id |-> 1]>> ELSE <<>>
usersOf(db) == SelectSeq(SeedUsers, LAMBDA u :
                    \/ u.role = "admin" /\ "user 1" \in db.rows
                    \/ u.role = "teacher" /\ "user 2" \in db.rows
                    \/ u.role = "student" /\ "user 3" \in db.rows)

\* const client = await pool.connect()
BootConnect(ok) ==
    /\ boot.pc = "connect"
    /\ BootStep([boot EXCEPT !.pc = IF ok THEN "begin" ELSE "exit",
                             !.fault = @ \/ ~ok])
    /\ UNCHANGED <<webVars, storeVars, clock, calls, pc, body, local, tx, res, marks, lastCommit>>

\* await client.query('BEGIN')
BootBegin(ok) ==
    /\ boot.pc = "begin"
    /\ BootStep([boot EXCEPT !.pc = IF ok THEN "schema" ELSE "rollback",
                             !.i = 1, !.live = boot.disk, !.fault = @ \/ ~ok])
    /\ UNCHANGED <<webVars, storeVars, clock, calls, pc, body, local, tx, res, marks, lastCommit>>

\* for (const statement of statements) await client.query(statement)
BootStatement(ok) ==
    LET todo == statements(schemaSql)
        sql == sqlOf(todo[boot.i])[1]
        error == sqlError(boot.live, boot.aborted, sql, ok)
        after(b) == [b EXCEPT !.i = @ + 1,
                              !.pc = IF boot.i = Len(todo) THEN "alter" ELSE "schema"]
    IN  /\ boot.pc = "schema"
        /\ boot.i <= Len(todo)
        /\ IF error = ""
           THEN BootStep(after([boot EXCEPT !.live = runSql(@, sql)]))
           ELSE IF boot.version = "part_000" /\ isNonCritical(error, sql)
           THEN BootStep(after([boot EXCEPT !.aborted = TRUE, !.fault = @ \/ ~ok]))
           ELSE BootStep([boot EXCEPT !.pc = "rollback", !.aborted = TRUE,
                                      !.fault = @ \/ ~ok])
        /\ UNCHANGED <<webVars, storeVars, clock, calls, pc, body, local, tx, res, marks, lastCommit>>

\* the four ALTER TABLE users ADD COLUMN IF NOT EXISTS, whose errors are only logged
BootAlter(ok) ==
    /\ boot.pc = "alter"
    /\ BootStep([boot EXCEPT !.pc = "commit",
                             !.aborted = @ \/ sqlError(boot.live, @, "alter users", ok) # "",
                             !.fault = @ \/ ~ok])
    /\ UNCHANGED <<webVars, storeVars, clock, calls, pc, body, local, tx, res, marks, lastCommit>>

\* await client.query('COMMIT'): the COMMIT of an aborted transaction rolls it
\* back and reports no error; then finally client.release()
BootCommit(ok) ==
    /\ boot.pc = "commit"
    /\ IF ~ok
       THEN /\ BootStep([boot EXCEPT !.pc = "rollback", !.fault = TRUE])
            /\ UNCHANGED storeVars
       ELSE LET disk == IF boot.aborted THEN boot.disk ELSE boot.live
            IN  /\ BootStep([boot EXCEPT !.pc = "ready", !.disk = disk, !.live = disk,
                                         !.aborted = FALSE])
                /\ classes' = classesOf(disk)
                /\ students' = studentsOf(disk)
                /\ users' = usersOf(disk)
                /\ UNCHANGED <<sessions, attendance>>
    /\ UNCHANGED <<webVars, clock, calls, pc, body, local, tx, res, marks, lastCommit>>

\* catch (err) { await client.query('ROLLBACK'); throw err } finally
\* { client.release() }, then the caller's process.exit(1)
BootRollback(ok) ==
    /\ boot.pc = "rollback"
    /\ BootStep([boot EXCEPT !.pc = "exit", !.live = boot.disk, !.aborted = FALSE,
                             !.fault = @ \/ ~ok])
    /\ UNCHANGED <<webVars, storeVars, clock, calls, pc, body, local, tx, res, marks, lastCommit>>

\* SpecInit: initializeDatabase, in either version of db.js, on an empty
\* database, on one that holds the tables without rows, and on an initialized one
TablesOnlyDb == [tables |-> Tables, rows |-> {}]

InitBoot ==
    /\ \E version \in Versions, disk \in {EmptyDb, TablesOnlyDb, SeededDb} :
        /\ boot = [pc |-> "connect", version |-> version, i |-> 0, disk |-> disk,
                   live |-> disk, aborted |-> FALSE, fault |-> FALSE,
                   first |-> disk = EmptyDb]
        /\ classes = classesOf(disk)
        /\ students = studentsOf(disk)
        /\ users = usersOf(disk)
    /\ sessions = <<>>
    /\ attendance = EmptyBag
    /\ clock = 0
    /\ calls = 0
    /\ pc = [p \in Clients |-> "idle"]
    /\ body = [p \in Clients |-> NoBody]
    /\ local = [p \in Clients |-> NoLocal]
    /\ tx = [p \in Clients |-> NoTx]
    /\ res = [p \in Clients |-> NoRes]
    /\ marks = {}
    /\ lastCommit = NoCommit
    /\ WebInit

NextBoot ==
    \/ \E ok \in BOOLEAN : BootConnect(ok)
    \/ \E ok \in BOOLEAN : BootBegin(ok)
    \/ \E ok \in BOOLEAN : BootStatement(ok)
    \/ \E ok \in BOOLEAN : BootAlter(ok)
    \/ \E ok \in BOOLEAN : BootCommit(ok)
    \/ \E ok \in BOOLEAN : BootRollback(ok)

SpecInit == InitBoot /\ [][NextBoot]_vars

\* SpecReport: the store holds two classes, two students of class 1, a session
\* of each class; one client marks attendance, and the reports are read in
\* every state
InitReport ==
    /\ classes = <<[name |-> "Class 12"], [name |-> "Class 11"]>>
    /\ students = <<[class_id |-> 1], [class_id |-> 1]>>
    /\ sessions = <<[class_id |-> 1], [class_id |-> 2]>>
    /\ attendance = EmptyBag
    /\ users = SeedUsers
    /\ clock = 0
    /\ calls = 0
    /\ pc = [p \in Clients |-> "idle"]
    /\ body = [p \in Clients |-> NoBody]
    /\ local = [p \in Clients |-> NoLocal]
    /\ tx = [p \in Clients |-> NoTx]
    /\ res = [p \in Clients |-> NoRes]
    /\ marks = {}
    /\ lastCommit = NoCommit
    /\ AuxInit

NextReport ==
    \/ \E session_id \in {<<"1">>, <<"2">>}, records \in ConcBatchInputs :
            Receive(1, "teacher", session_id, records)
    \/ Handler(1)

SpecReport == InitReport /\ [][NextReport]_vars

\* SpecAdmin: the entity store under the create endpoints alone, called by
\* every role, with class names that repeat and class ids that reference no class
AdminClassNameInputs == ClassNameInputs \cup {"Class 12"}
AdminClassIdInputs == RawIds(MaxClasses + 1) \cup {<<>>}

NextAdmin ==
    \/ \E role \in RoleInputs, name \in AdminClassNameInputs, ok \in BOOLEAN :
            CreateClass(role, name, ok)
    \/ \E role \in RoleInputs, name \in StudentNameInputs,
          class_id \in AdminClassIdInputs, ok \in BOOLEAN :
            CreateStudent(role, name, class_id, ok)
    \/ \E role \in RoleInputs, class_id \in AdminClassIdInputs,
          date \in DateInputs, ok \in BOOLEAN :
            CreateSession(role, class_id, date, ok)
    \/ \E role \in RoleInputs, username \in UsernameInputs, password \in PasswordInputs,
          class_id \in TeacherClassInputs, ok \in BOOLEAN :
            CreateTeacher(role, username, password, class_id, ok)

SpecAdmin == Init /\ [][NextAdmin]_vars

\* ----------------------------------------------------- session tokens
\* SESSION_TTL_HOURS of the environment; the time is counted in hours
SESSION_TTL_HOURS == 2
SESSION_TTL_MS == SESSION_TTL_HOURS

\* schema.sql: the passwords of the seed users; accounts made later have 'secret'
SeedPasswords == <<"admin123", "teacher123", "student123">>
passwordOf(id) == IF id <= Len(SeedPasswords) THEN SeedPasswords[id] ELSE "secret"

null == NoUser

\* createSession's safeUser of the row id of table users
safeUser(id) ==
    [id |-> id, username |-> users[id].username, role |-> users[id].role,
     class_id |-> users[id].class_id, student_id |-> users[id].student_id]

\* sessions.delete(token)
delete(store, token) == [t \in DOMAIN store \ {token} |-> store[t]]

\* sessions.set(token, { user: safeUser, expiresAt }) with expiresAt = Date.now() + SESSION_TTL_MS
createSession(store, id, token, now) ==
    (token :> [user |-> safeUser(id), expiresAt |-> now + SESSION_TTL_MS]) @@ store

\* faulty variant: a session is expired only after its expiry time
getUserFromRequest_Late(store, token, now) ==
    IF token = 0 THEN [user |-> null, sessions |-> store]
    ELSE IF token \notin DOMAIN store THEN [user |-> null, sessions |-> store]
    ELSE IF store[token].expiresAt # 0 /\ store[token].expiresAt < now
    THEN [user |-> null, sessions |-> delete(store, token)]
    ELSE [user |-> store[token].user, sessions |-> store]

\* getUserFromRequest: the user of the token (0 for no token) and the store after it
getUserFromRequest(store, token, now) ==
    IF token = 0 THEN [user |-> null, sessions |-> store]
    ELSE IF token \notin DOMAIN store THEN [user |-> null, sessions |-> store]
    ELSE IF store[token].expiresAt # 0 /\ store[token].expiresAt <= now
    THEN [user |-> null, sessions |-> delete(store, token)]
    ELSE [user |-> store[token].user, sessions |-> store]

\* the callback of setInterval: the expired sessions are deleted
sweep(store, now) ==
    [t \in {t \in DOMAIN store : ~(store[t].expiresAt # 0 /\ store[t].expiresAt <= now)}
        |-> store[t]]

LoginNames == {<<>>, SeedUsers[1].username, SeedUsers[2].username, <<"n", "o">>}
LoginPasswords == {"", "admin123", "teacher123"}
LoginRoles == {"", "admin", "teacher"}
LoginFaults == {"none", "select", "update"}

\* POST /api/login: the answer, the session store and the users whose
\* password is stored hashed after it; fault names the query that fails
login(username, password, role, fault) ==
    LET none(status, error) ==
            [status |-> status, error |-> error, token |-> 0, user |-> null, expiresAt |-> 0,
             sessions |-> auth.sessions, hashed |-> auth.hashed]
        rows == {id \in 1..Len(users) : users[id].username = username}
    IN  IF username = <<>> \/ password = "" \/ role = ""
        THEN none(400, "Username, password, and role are required")
        ELSE IF fault = "select" THEN none(500, "Database error")
        ELSE IF rows = {} THEN none(401, "Invalid username or password")
        ELSE LET id == CHOOSE i \in rows : TRUE
                 passwordMatch == passwordOf(id) = password
                 migrates == id \notin auth.hashed /\ passwordMatch
                 hashed == IF migrates THEN auth.hashed \cup {id} ELSE auth.hashed
             IN  IF migrates /\ fault = "update" THEN none(500, "Database error")
                 ELSE IF ~passwordMatch THEN none(401, "Invalid username or password")
                 ELSE IF users[id].role # role
                 THEN [none(400, "Incorrect role selected. Please choose the correct role.")
                          EXCEPT !.hashed = hashed]
                 ELSE [status |-> 200, error |-> "", token |-> auth.next, user |-> safeUser(id),
                       expiresAt |-> auth.now + SESSION_TTL_MS,
                       sessions |-> createSession(auth.sessions, id, auth.next, auth.now),
                       hashed |-> hashed]

authOthers == <<storeVars, clock, calls, pc, body, local, tx, res, marks, lastCommit, boot, cell>>

Login(username, password, role, fault) ==
    /\ auth.next <= MaxTokens
    /\ LET r == login(username, password, role, fault)
       IN  auth' = [auth EXCEPT
                !.sessions = r.sessions,
                !.hashed = r.hashed,
                !.next = IF r.status = 200 THEN @ + 1 ELSE @,
                !.issued = IF r.status = 200
                           THEN (r.token :> [user |-> r.user, expiresAt |-> r.expiresAt]) @@ @
                           ELSE @,
                !.req = [kind |-> "login", token |-> r.token, status |-> r.status,
                         user |-> r.user]]
    /\ UNCHANGED authOthers

\* POST /api/logout: requireAuth, then the token is deleted
Logout(token) ==
    /\ LET g == getUserFromRequest(auth.sessions, token, auth.now)
       IN  IF g.user = null
           THEN auth' = [auth EXCEPT !.sessions = g.sessions,
                            !.req = [kind |-> "logout", token |-> token, status |-> 401,
                                     user |-> null]]
           ELSE auth' = [auth EXCEPT !.sessions = delete(g.sessions, token),
                            !.loggedOut = @ \cup {token},
                            !.req = [kind |-> "logout", token |-> token, status |-> 200,
                                     user |-> g.user]]
    /\ UNCHANGED authOthers

\* GET /api/me: requireAuth, then the user is returned
Me(token) ==
    /\ LET g == getUserFromRequest(auth.sessions, token, auth.now)
       IN  auth' = [auth EXCEPT !.sessions = g.sessions,
                        !.req = [kind |-> "me", token |-> token,
                                 status |-> IF g.user = null THEN 401 ELSE 200,
                                 user |-> g.user]]
    /\ UNCHANGED authOthers

\* the hourly clean-up
Sweep ==
    /\ auth' = [auth EXCEPT !.sessions = sweep(auth.sessions, auth.now)]
    /\ UNCHANGED authOthers

\* an hour passes
Tick ==
    /\ auth.now < MaxTime
    /\ auth' = [auth EXCEPT !.now = @ + 1]
    /\ UNCHANGED authOthers

TokenInputs == 0..MaxTokens

NextAuth ==
    \/ \E username \in LoginNames, password \in LoginPasswords, role \in LoginRoles,
          fault \in LoginFaults : Login(username, password, role, fault)
    \/ \E token \in TokenInputs : Logout(token)
    \/ \E token \in TokenInputs : Me(token)
    \/ Sweep
    \/ Tick

SpecAuth == Init /\ [][NextAuth]_vars

\* ------------------------------------------------------- CSV export helpers
quote == "\""
comma == ","
newline == "\n"

\* the field values handed to csvEscape: null, undefined, strings and numbers
RECURSIVE Texts(_)
Texts(n) ==
    IF n = 0 THEN {<<>>}
    ELSE Texts(n - 1) \cup {Append(t, c) : t \in Texts(n - 1), c \in {"a", quote, comma, newline}}

Values ==
    {[type |-> t, str |-> <<>>, num |-> 0] : t \in {"null", "undefined"}}
        \cup {[type |-> "string", str |-> s, num |-> 0] : s \in Texts(MaxLen)}
        \cup {[type |-> "number", str |-> <<>>, num |-> n] : n \in 0..MaxStudents}

\* String(value) of a string or a number
toStr(value) == IF value.type = "number" THEN String(value.num) ELSE value.str

\* faulty variant: the quotes of the value are not doubled
replaceQuotes_Kept(str) == str

\* str.replace(/"/g, '""')
RECURSIVE replaceQuotes(_)
replaceQuotes(str) ==
    IF str = <<>> THEN <<>>
    ELSE (IF Head(str) = quote THEN <<quote, quote>> ELSE <<Head(str)>>)
            \o replaceQuotes(Tail(str))

\* csvEscape(value)
csvEscape(value) ==
    IF value.type \in {"null", "undefined"} THEN <<>>
    ELSE LET str == toStr(value)
         IN  IF \E i \in 1..Len(str) : str[i] \in {quote, comma, newline}
             THEN <<quote>> \o replaceQuotes(str) \o <<quote>>
             ELSE str

\* pieces.join(sep)
RECURSIVE join(_, _)
join(pieces, sep) ==
    IF pieces = <<>> THEN <<>>
    ELSE IF Len(pieces) = 1 THEN pieces[1]
    ELSE pieces[1] \o <<sep>> \o join(Tail(pieces), sep)

\* sendCsv: the text sent, of the header line and the lines of the rows
sendCsv(headerColumns, rows) ==
    LET headerLine == join(headerColumns, comma) \o <<newline>>
        bodyLines == join([r \in 1..Len(rows) |->
                             join([c \in 1..Len(rows[r]) |-> csvEscape(rows[r][c])], comma)],
                          newline)
    IN  headerLine \o bodyLines

\* the header of a table of n columns
headerOf(n) == [c \in 1..n |-> <<"H">>]

cellOthers == <<storeVars, clock, calls, pc, body, local, tx, res, marks, lastCommit, boot, auth>>

\* an export sends one row as CSV
SendCsv ==
    /\ ~cell.done
    /\ cell' = [cell EXCEPT !.done = TRUE,
                            !.text = sendCsv(headerOf(Len(cell.cols)), <<cell.cols>>)]
    /\ UNCHANGED cellOthers

\* SpecCsv: a row of every shape is exported
InitCsv ==
    /\ classes = <<[name |-> "Class 12"]>>
    /\ students = <<[class_id |-> 1]>>
    /\ sessions = <<>>
    /\ attendance = EmptyBag
    /\ users = SeedUsers
    /\ clock = 0
    /\ calls = 0
    /\ pc = [p \in Clients |-> "idle"]
    /\ body = [p \in Clients |-> NoBody]
    /\ local = [p \in Clients |-> NoLocal]
    /\ tx = [p \in Clients |-> NoTx]
    /\ res = [p \in Clients |-> NoRes]
    /\ marks = {}
    /\ lastCommit = NoCommit
    /\ boot = BootReady
    /\ AuthInit
    /\ \E n \in 1..MaxCols : \E cols \in [1..n -> Values] :
          cell = [cols |-> cols, done |-> FALSE, text |-> <<>>]

NextCsv == SendCsv

SpecCsv == InitCsv /\ [][NextCsv]_vars

\* ================================================================ claims
Active(p) == pc[p] \notin {"idle", "done", "hung"}

Rows(table) == BagToSet(table)

\* the student id of a record of a request, 0 when it is not a positive integer
IdOf(r) == IF IsPositiveInt(parseInt(r.student_id)) THEN parseInt(r.student_id).val ELSE 0

\* every record of p's batch that survives normalization is a row of the
\* table after the step, with the lowercased status
BatchApplied(p) ==
    \A i \in 1..Len(body[p].records) :
        LET r == body[p].records[i]
        IN  IdOf(r) > 0 =>
                \E row \in Rows(attendance') :
                    /\ row.session_id = local[p].sessionIdInt
                    /\ row.student_id = IdOf(r)
                    /\ row.status = toLowerCase(r.status)

\* the rows that p's batch does not name are the same after the step
OthersUntouched(p) ==
    \A row \in Rows(attendance) \cup Rows(attendance') :
        (\/ row.session_id # local[p].sessionIdInt
         \/ \A i \in 1..Len(body[p].records) : IdOf(body[p].records[i]) # row.student_id)
        => /\ row \in Rows(attendance) /\ row \in Rows(attendance')
           /\ CopiesIn(row, attendance') = CopiesIn(row, attendance)

\* C1: commitAttendance is all-or-nothing. A step changes the attendance
\* table only if it is the COMMIT of a call, and then every valid record of
\* the batch is in the table and no other row changed; a call that answers
\* 201 has applied every valid record; the step that ends a call with any
\* other answer (validation failure, store failure at any query) leaves the
\* table as it is, so no prefix of a batch is ever persisted.
C1_AllOrNothing ==
    [][\A p \in Clients :
        /\ attendance' # attendance =>
              \E q \in Clients : pc[q] = "commit" /\ BatchApplied(q) /\ OthersUntouched(q)
        /\ (Active(p) /\ pc'[p] = "done" /\ res'[p].status = 201) => BatchApplied(p)
        /\ (Active(p) /\ pc'[p] = "done" /\ res'[p].status # 201) => attendance' = attendance
      ]_vars

\* C1 witness: the store failed at the second upsert of a batch, after the
\* first upsert was done, while rows of an earlier commit are in the table
C1_Witness ==
    \E p \in Clients :
        /\ pc[p] = "catch" /\ local[p].i = 2 /\ Len(tx[p].log) = 1
        /\ attendance # EmptyBag

\* the batch of p names a positive student id that is not a student of the
\* class of the (existing) session
HasOutsider(p) ==
    /\ Active(p)
    /\ local[p].sessionIdInt \in 1..Len(sessions)
    /\ \E i \in 1..Len(body[p].records) :
        LET id == IdOf(body[p].records[i])
        IN  /\ id > 0
            /\ \/ id > Len(students)
               \/ students[id].class_id # sessions[local[p].sessionIdInt].class_id

\* C2: a batch with a positive student id outside the session's class never
\* reaches an upsert: the call writes nothing, the table stays as it is, and
\* the call ends with a 400 validation error (500 only when the store failed).
C2_OutsiderRejectsBatch ==
    [][\A p \in Clients :
        HasOutsider(p) =>
            /\ pc'[p] \notin {"upsert", "commit"}
            /\ tx'[p].log = <<>>
            /\ attendance' = attendance
            /\ pc'[p] = "done" => res'[p].status \in {400, 500}
            /\ (pc[p] = "rollback" /\ pc'[p] = "done") => res'[p].status = 400
      ]_vars

\* C2 witness: the membership check has rejected a batch that names an
\* outsider and a student of the class, while the session has rows
C2_Witness ==
    \E p \in Clients :
        /\ pc[p] = "rollback"
        /\ local[p].error = "Some students do not belong to this session's class"
        /\ HasOutsider(p)
        /\ \E i \in 1..Len(body[p].records) :
              LET id == IdOf(body[p].records[i])
              IN  /\ id \in 1..Len(students)
                  /\ students[id].class_id = local[p].sessionClassId
        /\ \E row \in Rows(attendance) : row.session_id = local[p].sessionIdInt

\* C3: the record of (session, student) has the status of the latest commit
\* that took effect and named the student, and the time of the first one.
C3_UpsertKeepsFirstMark ==
    \A m \in marks :
        LET rows == {r \in Rows(attendance) :
                        r.session_id = m.session_id /\ r.student_id = m.student_id}
        IN  /\ rows # {}
            /\ \A r \in rows : r.status = m.status /\ r.marked_at = m.first

\* C3 witness: a student marked by the first transaction was marked again,
\* as absent, by the second, which has answered 201
C3_Witness ==
    \E m \in marks :
        /\ m.first = 1 /\ clock = 2 /\ m.status = absent
        /\ pc[1] = "done" /\ res[1].status = 201
        /\ lastCommit.session_id = m.session_id
        /\ \E i \in 1..Len(lastCommit.records) : IdOf(lastCommit.records[i]) = m.student_id

\* the request p handles is the request of the latest commit
SameAsLast(p) ==
    /\ Active(p)
    /\ lastCommit = [session_id |-> local[p].sessionIdInt, records |-> body[p].records]

\* C4: a call with the batch and session of the latest commit is never
\* rejected by validation, and its COMMIT leaves every row of the table,
\* marked_at included, as the first commit left it.
C4_Idempotent ==
    [][\A p \in Clients :
        SameAsLast(p) =>
            /\ pc'[p] # "rollback"
            /\ (pc[p] = "commit" /\ pc'[p] # "commit") => attendance' = attendance
      ]_vars

\* C4 witness: the second call with the same two-record batch has done its
\* upserts and is about to commit
C4_Witness ==
    \E p \in Clients :
        /\ SameAsLast(p) /\ pc[p] = "commit" /\ Len(tx[p].log) = 2
        /\ tx[p].ts > 1

\* C5: at most one attendance row per (session_id, student_id).
C5_UniquePerPair ==
    \A r1 \in Rows(attendance) :
        /\ CopiesIn(r1, attendance) = 1
        /\ \A r2 \in Rows(attendance) :
              (r1.session_id = r2.session_id /\ r1.student_id = r2.student_id) => r1 = r2

\* C5 witness: a transaction has updated a row that a transaction begun
\* after it inserted and committed meanwhile
C5_Witness ==
    \E p \in Clients : \E i \in 1..Len(tx[p].log) : \E r \in Rows(attendance) :
        /\ tx[p].log[i].op = "update"
        /\ r.session_id = tx[p].log[i].session_id
        /\ r.student_id = tx[p].log[i].student_id
        /\ r.marked_at > tx[p].ts

\* C6: the student of every attendance row is of the class of the row's session.
C6_SameClass ==
    \A r \in Rows(attendance) :
        /\ r.student_id \in 1..Len(students)
        /\ r.session_id \in 1..Len(sessions)
        /\ students[r.student_id].class_id = sessions[r.session_id].class_id

\* C6 witness: attendance is recorded while a student of another class exists
C6_Witness ==
    /\ attendance # EmptyBag
    /\ \E r \in Rows(attendance) : \E id \in 1..Len(students) :
          students[id].class_id # sessions[r.session_id].class_id

\* s is t up to the case of its letters
UpperLower == {<<"A", "a">>, <<"B", "b">>, <<"E", "e">>, <<"N", "n">>, <<"P", "p">>,
               <<"R", "r">>, <<"S", "s">>, <<"T", "t">>}

CaseVariant(s, t) ==
    /\ Len(s) = Len(t)
    /\ \A i \in 1..Len(s) : s[i] = t[i] \/ <<s[i], t[i]>> \in UpperLower

\* C7: every persisted status is exactly 'present' or 'absent'; a call whose
\* batch holds any other status (up to letter case) writes nothing; a status
\* that differs from these only in letter case is not rejected as invalid and
\* is stored lowercased by the commit.
C7_StatusDomain ==
    [][/\ \A r \in Rows(attendance') : r.status \in {present, absent}
       /\ \A p \in Clients :
            LET recs == body[p].records
                known(i) == \E v \in {present, absent} : CaseVariant(recs[i].status, v)
            IN  /\ (\E i \in 1..Len(recs) : ~known(i)) =>
                        /\ tx'[p].log = <<>>
                        /\ attendance' = attendance
                /\ (\A i \in 1..Len(recs) : known(i)) =>
                        local'[p].error # "Invalid status values. Must be \"present\" or \"absent\""
                /\ (pc[p] = "commit" /\ pc'[p] = "done") =>
                        \A i \in 1..Len(recs) : \A v \in {present, absent} :
                            (IdOf(recs[i]) > 0 /\ CaseVariant(recs[i].status, v)) =>
                                \E row \in Rows(attendance') :
                                    /\ row.session_id = local[p].sessionIdInt
                                    /\ row.student_id = IdOf(recs[i])
                                    /\ row.status = v
      ]_vars

\* C7 witness: a row holds 'absent' for a record committed as 'Absent'
C7_Witness ==
    \E r \in Rows(attendance) : \E i \in 1..Len(lastCommit.records) :
        /\ r.status = absent
        /\ r.session_id = lastCommit.session_id
        /\ r.student_id = IdOf(lastCommit.records[i])
        /\ lastCommit.records[i].status = <<"A", "b", "s", "e", "n", "t">>

ClassIdInputs == RawIds(MaxClasses + 1) \cup {<<>>}

\* C8: every row of the class summary has presents + absents = total and
\* 0 <= presents <= total.
C8_SummaryArithmetic ==
    \A role \in RoleInputs \ {""}, class_id \in ClassIdInputs :
      \A row \in summaryByClass(role, class_id).rows :
        /\ row.presents + row.absents = row.total
        /\ 0 <= row.presents
        /\ row.presents <= row.total

\* C8 witness: a student with two sessions recorded, one of them present
C8_Witness ==
    \E row \in summaryByClass("teacher", <<"1">>).rows :
        row.total = 2 /\ row.presents = 1 /\ row.absents = 1

\* C9: the class summary has exactly one row per student of the class; a
\* student without attendance rows has total = presents = absents = 0, so a
\* class of N students without attendance yields N rows of zeros.
C9_OneRowPerStudent ==
    \A role \in {"admin", "teacher"}, class_id \in RawIds(MaxClasses + 1) \ {<<"x">>} :
        LET rows == summaryByClass(role, class_id).rows
            members == {id \in 1..Len(students) :
                            <<DigitChar(students[id].class_id)>> = class_id}
        IN  /\ {row.student_id : row \in rows} = members
            /\ Cardinality(rows) = Cardinality(members)
            /\ \A row \in rows :
                  (\A r \in Rows(attendance) : r.student_id # row.student_id) =>
                      row.total = 0 /\ row.presents = 0 /\ row.absents = 0

\* C9 witness: a class of two students, one with attendance and one without
C9_Witness ==
    /\ Len(students) = 2
    /\ students[1].class_id = 1 /\ students[2].class_id = 1
    /\ Cardinality(summaryByClass("teacher", <<"1">>).rows) = 2
    /\ \E r \in Rows(attendance) : r.student_id = 1
    /\ \A r \in Rows(attendance) : r.student_id # 2

\* C10: a student's total is the number of sessions of the class with an
\* attendance row of the student, and presents the number of those that are
\* 'present'; a session without a row of the student is not counted.
C10_TotalCountsMarkedSessions ==
    \A role \in {"admin", "teacher"}, class_id \in RawIds(MaxClasses + 1) :
      \A row \in summaryByClass(role, class_id).rows :
        LET marked(st) == {sid \in 1..Len(sessions) :
                            /\ <<DigitChar(sessions[sid].class_id)>> = class_id
                            /\ \E r \in Rows(attendance) :
                                  /\ r.session_id = sid /\ r.student_id = row.student_id
                                  /\ r.status \in st}
        IN  /\ row.total = Cardinality(marked({present, absent}))
            /\ row.presents = Cardinality(marked({present}))

\* C10 witness: after [{1, present}, {2, absent}] for the one session of class
\* 1, the summary is {1: 1/1/0, 2: 1/0/1}
C10_Witness ==
    summaryByClass("teacher", <<"1">>).rows =
        {[student_id |-> 1, total |-> 1, presents |-> 1, absents |-> 0],
         [student_id |-> 2, total |-> 1, presents |-> 0, absents |-> 1]}

\* C11: the class-summary export reports the same figures as the class
\* summary: in every state, for every class_id and format, the lines of a
\* successful export carry for each student the presents and the total of
\* the rows of the summary of the same class.
C11_ExportMatchesSummary ==
    \A role \in {"admin", "teacher"}, class_id \in ClassIdInputs, format \in FormatInputs :
        LET view == summaryByClass(role, class_id)
            export == exportSummaryByClass(role, class_id, format)
        IN  (view.status = 200 /\ export.status = 200) =>
                export.lines = {summaryLine(r) : r \in view.rows}

\* the student principals
Students == {user \in UserInputs : user.role = "student"}

\* C12: a student principal that asks for the report of another student (or
\* that has no student_id) is answered 403 without rows, by the view and by
\* the export, for every value of the format parameter.
C12_OtherStudentForbidden ==
    \A user \in Students, student_id \in StudentIdInputs, format \in FormatInputs :
        LET n == parseInt(student_id)
        IN  (IsPositiveInt(n) /\ (user.student_id = 0 \/ n.val # user.student_id)) =>
                /\ reportByStudent(user, student_id).status = 403
                /\ reportByStudent(user, student_id).rows = {}
                /\ exportByStudent(user, student_id, format).status = 403
                /\ exportByStudent(user, student_id, format).rows = {}

\* C12 witness: student 1 has attendance rows, which an admin is shown, and
\* the student principal of student 2 asks for them
C12_Witness ==
    LET other == [role |-> "student", class_id |-> 1, student_id |-> 2]
        admin == [role |-> "admin", class_id |-> 0, student_id |-> 0]
    IN  /\ reportByStudent(admin, <<"1">>).rows # {}
        /\ exportByStudent(admin, <<"1">>, pdf).rows # {}
        /\ reportByStudent(other, <<"1">>).status = 403
        /\ exportByStudent(other, <<"1">>, pdf).status = 403
        /\ Len(students) = 2

\* C13: for a student principal the student-report export never produces the
\* tabular (CSV) format: for every value of the format parameter the answer
\* is a document (PDF) export or a rejection.
C13_StudentExportOnlyPdf ==
    \A user \in Students, student_id \in StudentIdInputs, format \in FormatInputs :
        LET export == exportByStudent(user, student_id, format)
        IN  export.status # 200 \/ export.kind = "pdf"

\* C14: a student principal that exports its own report is answered 400 (a
\* validation error, not 403) for format=csv and gets the PDF export for
\* format=pdf; an admin or a teacher gets the export in the format asked for,
\* csv or pdf.
C14_StudentCsvIsValidationError ==
    /\ \A user \in Students :
        user.student_id # 0 =>
            LET own == String(user.student_id)
            IN  /\ exportByStudent(user, own, csv).status = 400
                /\ exportByStudent(user, own, csv).rows = {}
                /\ exportByStudent(user, own, pdf).status = 200
                /\ exportByStudent(user, own, pdf).kind = "pdf"
                /\ exportByStudent(user, own, pdf).rows = studentReportSql(user.student_id)
    /\ \A user \in UserInputs \ Students, id \in 1..MaxStudents :
            /\ exportByStudent(user, String(id), csv).status = 200
            /\ exportByStudent(user, String(id), csv).kind = "csv"
            /\ exportByStudent(user, String(id), pdf).status = 200
            /\ exportByStudent(user, String(id), pdf).kind = "pdf"

\* C14 witness: student 1 has an attendance row; its own principal is refused
\* the CSV and gets the row in the PDF, a teacher gets it in the CSV
C14_Witness ==
    LET self == [role |-> "student", class_id |-> 1, student_id |-> 1]
        teacher == [role |-> "teacher", class_id |-> 1, student_id |-> 0]
    IN  /\ exportByStudent(self, <<"1">>, csv).status = 400
        /\ exportByStudent(self, <<"1">>, pdf).rows # {}
        /\ exportByStudent(teacher, <<"1">>, csv).rows # {}
        /\ exportByStudent(teacher, <<"1">>, csv).kind = "csv"

\* C15: a student principal is denied the class summary: for every class_id
\* (its own class included) and every format, the summary and the summary
\* export answer 4xx without rows, and 403 whenever the class_id is one the
\* handler accepts.
C15_StudentDeniedSummary ==
    \A class_id \in ClassIdInputs, format \in FormatInputs :
        LET view == summaryByClass("student", class_id)
            export == exportSummaryByClass("student", class_id, format)
        IN  /\ view.status \in {400, 403} /\ view.rows = {}
            /\ export.status \in {400, 403} /\ export.lines = {}
            /\ IsPositiveInt(parseInt(class_id)) => view.status = 403
            /\ class_id # <<>> => export.status = 403

\* C15 witness: attendance was taken in class 1, a teacher is shown the
\* figures by both endpoints, a student asks for its own class
C15_Witness ==
    /\ \E r \in summaryByClass("teacher", <<"1">>).rows : r.total > 0
    /\ \E r \in exportSummaryByClass("teacher", <<"1">>, pdf).lines : r.presents > 0
    /\ summaryByClass("student", <<"1">>).status = 403
    /\ exportSummaryByClass("student", <<"1">>, pdf).status = 403

\* what requireAuth and requireRole answer to a role that is not permitted
Denied(role) == IF role = "" THEN 401 ELSE 403

\* the bodies of markAttendance requests with at most one record
ShortBatches == {records \in BatchInputs : Len(records) <= 1}

\* C16: only teachers create sessions and mark attendance. In every state a
\* createSession request of an admin or a student is answered 403 whatever
\* its body, and one without a user 401, and the table sessions stays as it
\* is; every markAttendance request of such a caller ends at once with 403
\* (401 without a user) and leaves the tables sessions and attendance unchanged.
C16_OnlyTeachers ==
    /\ [](\A role \in RoleInputs \ {"teacher"}, class_id \in ClassIdInputs,
             date \in DateInputs \cup {<<>>}, ok \in BOOLEAN :
            LET r == postSessions(role, class_id, date, ok)
            IN  r.status = Denied(role) /\ r.sessions = sessions)
    /\ [][calls' # calls =>
            \A role \in RoleInputs \ {"teacher"},
               session_id \in RawIds(MaxSessions) \cup {<<>>}, records \in ShortBatches :
                Receive(1, role, session_id, records) =>
                    /\ pc'[1] = "done" /\ res'[1].status = Denied(role)
                    /\ sessions' = sessions /\ attendance' = attendance
                    /\ \A q \in Clients : tx'[q] = tx[q]
         ]_vars

\* C16 witness: a teacher has created a session and marked attendance in it,
\* and the latest markAttendance request was answered 403, while a teacher's
\* createSession request would be accepted
C16_Witness ==
    /\ sessions # <<>> /\ attendance # EmptyBag
    /\ pc[1] = "done" /\ res[1].status = 403
    /\ postSessions("teacher", <<"1">>, CHOOSE d \in DateInputs : dateRegex(d), TRUE).status = 201
    /\ postSessions("admin", <<"1">>, CHOOSE d \in DateInputs : dateRegex(d), TRUE).status = 403

\* C17: only admins create classes, students and teacher accounts. In every
\* state a createClass, createStudent or createTeacher request of a teacher
\* or a student is answered 403 whatever its body, and the tables classes,
\* students and users stay as they are.
C17_OnlyAdmins ==
    \A role \in {"teacher", "student"}, ok \in BOOLEAN :
        /\ \A name \in AdminClassNameInputs :
            LET r == postClasses(role, name, ok)
            IN  r.status = 403 /\ r.classes = classes
        /\ \A name \in StudentNameInputs, class_id \in AdminClassIdInputs :
            LET r == postStudents(role, name, class_id, ok)
            IN  r.status = 403 /\ r.students = students
        /\ \A username \in UsernameInputs, password \in PasswordInputs,
              class_id \in TeacherClassInputs :
            LET r == postTeachers(role, username, password, class_id, ok)
            IN  r.status = 403 /\ r.users = users

\* C17 witness: an admin has created a class, a student and a teacher
\* account, and the same requests would be accepted from an admin again
C17_Witness ==
    /\ Len(classes) = 2 /\ Len(students) = 2 /\ Len(users) = Len(SeedUsers) + 1
    /\ postClasses("admin", "Class 11", TRUE).status = 201
    /\ postStudents("admin", "asha", <<"2">>, TRUE).status = 201
    /\ postTeachers("admin", <<"m", "i", "r", "a">>, "secret", <<"1">>, TRUE).status = 201
    /\ postTeachers("teacher", <<"m", "i", "r", "a">>, "secret", <<"1">>, TRUE).status = 403

\* C18: session listing is scoped for students. In every state, whatever
\* class_id a student principal asks for, it is shown exactly the sessions of
\* its own class, and none when it has no class; an admin or a teacher that
\* asks for a class is shown the sessions of that class.
C18_SessionsScoped ==
    /\ \A user \in Students, class_id \in ClassIdInputs :
        LET r == getSessions(user, class_id)
        IN  /\ r.status = 200
            /\ \A row \in r.rows : row.class_id = user.class_id
            /\ r.rows = {[id |-> sid, class_id |-> user.class_id] :
                            sid \in {sid \in 1..Len(sessions) :
                                        sessions[sid].class_id = user.class_id}}
            /\ user.class_id = 0 => r.rows = {}
    /\ \A user \in UserInputs \ Students, c \in 1..MaxClasses :
        getSessions(user, String(c)) =
            [status |-> 200, error |-> "",
             rows |-> {[id |-> sid, class_id |-> c] :
                          sid \in {sid \in 1..Len(sessions) : sessions[sid].class_id = c}}]

\* C18 witness: the store holds a session of class 2; a teacher that asks for
\* class 2 is shown it, a student of class 1 that asks for class 2 is shown none
C18_Witness ==
    LET student == [role |-> "student", class_id |-> 1, student_id |-> 1]
        teacher == [role |-> "teacher", class_id |-> 1, student_id |-> 0]
    IN  /\ getSessions(teacher, <<"2">>).rows = {[id |-> 1, class_id |-> 2]}
        /\ getSessions(student, <<"2">>).rows = {}
        /\ getSessions(student, <<"2">>).status = 200

\* the class ids of a request that denote a positive integer naming no class
NoSuchClass == {class_id \in AdminClassIdInputs :
                   /\ IsPositiveInt(parseInt(class_id))
                   /\ parseInt(class_id).val \notin 1..Len(classes)}

\* C19: class references are consistent. In every state each student and each
\* session references an existing class; a createStudent or createSession
\* request of a permitted caller whose class_id names no class is answered
\* 400 (500 when the store fails) and creates nothing.
C19_ClassReferences ==
    /\ \A id \in 1..Len(students) : students[id].class_id \in 1..Len(classes)
    /\ \A sid \in 1..Len(sessions) : sessions[sid].class_id \in 1..Len(classes)
    /\ \A class_id \in NoSuchClass, ok \in BOOLEAN :
        /\ \A name \in StudentNameInputs \ {""} :
            LET r == postStudents("admin", name, class_id, ok)
            IN  r.status = (IF ok THEN 400 ELSE 500) /\ r.students = students
        /\ \A date \in {d \in DateInputs : dateRegex(d)} :
            LET r == postSessions("teacher", class_id, date, ok)
            IN  r.status = (IF ok THEN 400 ELSE 500) /\ r.sessions = sessions

\* C19 witness: a student and a session of the second class were created, and
\* a request names a third class, which does not exist
C19_Witness ==
    /\ Len(classes) = 2 /\ Len(students) = 2 /\ students[2].class_id = 2
    /\ Len(sessions) = 1 /\ sessions[1].class_id = 2
    /\ <<"3">> \in NoSuchClass
    /\ postStudents("admin", "asha", <<"3">>, TRUE).error = "Invalid class_id: class does not exist"

\* C20: class names are unique. A createClass request with the name of an
\* existing class adds no class, so in every state no two classes have the
\* same name.
C20_ClassNamesUnique ==
    \A i, j \in 1..Len(classes) : classes[i].name = classes[j].name => i = j

\* C21: the schema is initialized on first run. When initializeDatabase has
\* run against an empty database and no statement failed for a reason of the
\* store, it has completed with its transaction committed, the five tables
\* exist and the seed rows are present.
C21_SchemaInitialized ==
    (boot.first /\ ~boot.fault /\ boot.pc \in {"ready", "exit"}) =>
        /\ boot.pc = "ready"
        /\ boot.disk.tables = Tables
        /\ boot.disk.rows = SeedRows
        /\ classes = <<[name |-> "Class 12"]>> /\ users = SeedUsers

\* C22: class membership is judged on distinct student ids. The membership
\* check rejects a batch only when the batch names a student outside the
\* session's class: a batch whose student ids all belong to the class passes
\* it, also when the same student id appears in more than one record.
C22_MembershipOnDistinctIds ==
    [][\A p \in Clients :
        (/\ pc[p] = "check" /\ pc'[p] = "rollback"
         /\ local'[p].error = "Some students do not belong to this session's class")
            => HasOutsider(p)
      ]_vars

\* C23: a record that fails coercion is dropped, not fatal. A batch is
\* rejected for its status values only when a record that survives
\* normalization (its student_id is a positive integer) holds a status other
\* than present or absent: the status of a dropped record rejects nothing.
C23_DroppedRecordNotFatal ==
    [][\A p \in Clients :
        (/\ pc[p] = "session" /\ pc'[p] = "rollback"
         /\ local'[p].error = "Invalid status values. Must be \"present\" or \"absent\"")
            => \E i \in 1..Len(body[p].records) :
                  /\ IdOf(body[p].records[i]) > 0
                  /\ toLowerCase(body[p].records[i].status) \notin validStatuses
      ]_vars

\* the request of p fails a validation made before the membership check: its
\* session does not exist, no record survives normalization, or a status is
\* neither present nor absent
FailsValidation(p) ==
    /\ Active(p)
    /\ \/ local[p].sessionIdInt \notin 1..Len(sessions)
       \/ \A i \in 1..Len(body[p].records) : IdOf(body[p].records[i]) = 0
       \/ \E i \in 1..Len(body[p].records) :
             toLowerCase(body[p].records[i].status) \notin {present, absent}

\* C24: validation precedes every write. A call is at its upserts, or has
\* issued one, only when its session exists, every status is present or
\* absent, some record survived normalization and no record names a student
\* outside the session's class; a call that fails one of the first three
\* validations issues no write, and when its ROLLBACK is done it ends with a
\* 400 validation error.
C24_ValidationPrecedesWrites ==
    [][\A p \in Clients :
        /\ (pc'[p] \in {"upsert", "commit"} \/ tx'[p].log # <<>>) =>
              /\ local'[p].sessionIdInt \in 1..Len(sessions')
              /\ \A i \in 1..Len(body'[p].records) :
                    toLowerCase(body'[p].records[i].status) \in {present, absent}
              /\ \E i \in 1..Len(body'[p].records) : IdOf(body'[p].records[i]) > 0
              /\ ~HasOutsider(p)'
        /\ FailsValidation(p) =>
              /\ pc'[p] \notin {"check", "upsert", "commit"}
              /\ tx'[p].log = <<>>
              /\ attendance' = attendance
              /\ pc'[p] = "done" => res'[p].status \in {400, 500}
              /\ (pc[p] = "rollback" /\ pc'[p] = "done") => res'[p].status = 400
      ]_vars

\* C24 witness: a call whose batch holds a valid record and a record with the
\* status 'late' was rejected for its statuses, having written nothing, while
\* the table has rows of an earlier commit
C24_Witness ==
    \E p \in Clients :
        /\ pc[p] = "rollback" /\ FailsValidation(p)
        /\ local[p].error = "Invalid status values. Must be \"present\" or \"absent\""
        /\ \E i \in 1..Len(body[p].records) :
              /\ IdOf(body[p].records[i]) > 0
              /\ toLowerCase(body[p].records[i].status) \in {present, absent}
        /\ tx[p].log = <<>>
        /\ attendance # EmptyBag

\* the status of each student in the rows of a session
StatusOf(table, session_id) ==
    {<<r.student_id, r.status>> : r \in {x \in Rows(table) : x.session_id = session_id}}

\* the statuses of a session after a batch is applied to them, record by record
RECURSIVE SerialApply(_, _)
SerialApply(statuses, recs) ==
    IF recs = <<>> THEN statuses
    ELSE SerialApply({x \in statuses : x[1] # IdOf(Head(recs))}
                        \cup {<<IdOf(Head(recs)), toLowerCase(Head(recs).status)>>},
                     Tail(recs))

\* the surviving records of the batch of p
Survivors(p) ==
    SelectSeq(body[p].records, LAMBDA r : IdOf(r) > 0 /\ toLowerCase(r.status) \in {present, absent})

\* the step is the COMMIT of p taking effect
Commits(p) == pc[p] = "commit" /\ pc'[p] # "commit" /\ tx'[p].log = <<>>

\* C25: concurrent commits do not interleave partial writes. The table
\* changes only at the COMMIT of one call, and that step changes the statuses
\* of the call's session to what applying the whole batch to the committed
\* statuses gives, and the statuses of no other session; every other end of a
\* call leaves the table as it is. The rows of a session are therefore those
\* of the committed batches applied one after the other, in the order of
\* their commits.
C25_CommitsSerial ==
    [][/\ attendance' # attendance => \E p \in Clients : Commits(p)
       /\ \A p \in Clients :
            /\ Commits(p) =>
                  \A s \in 1..Len(sessions) :
                      StatusOf(attendance', s) =
                          IF s = local[p].sessionIdInt
                          THEN SerialApply(StatusOf(attendance, s), Survivors(p))
                          ELSE StatusOf(attendance, s)
            /\ (Active(p) /\ pc'[p] # pc[p] /\ ~Commits(p)) => attendance' = attendance
      ]_vars

\* C25 witness: two calls on the same session have both written, with
\* different statuses for a student, and one waits for a row the other wrote
\* while the other is about to commit
C25_Witness ==
    \E p, q \in Clients :
        /\ p # q /\ local[p].sessionIdInt = local[q].sessionIdInt
        /\ pc[q] = "commit" /\ pc[p] = "upsert"
        /\ tx[p].log # <<>> /\ tx[q].log # <<>>
        /\ Blockers(p) = {q}
        /\ \E e \in Range(tx[q].log) :
              e.student_id = IdOf(rec(p)) /\ e.status # toLowerCase(rec(p).status)

\* the principal of an administrator
AdminUser == [role |-> "admin", class_id |-> 0, student_id |-> 0]

\* C26: reports never expose a partially applied commit. In every state,
\* also while calls have written some or all of their records and have not
\* committed, or are rolling back, the student report, the attendance of a
\* session and the class summary hold exactly the marks of the commits that
\* took effect, each with all its records: nothing of a call in flight or
\* rolled back.
C26_ReportsSeeWholeCommits ==
    /\ \A id \in 1..Len(students) :
          {<<r.session_id, r.status, r.marked_at>> :
                r \in reportByStudent(AdminUser, String(id)).rows}
            = {<<m.session_id, m.status, m.first>> : m \in {x \in marks : x.student_id = id}}
    /\ \A s \in 1..Len(sessions) :
          {<<r.student_id, r.status, r.marked_at>> :
                r \in attendanceBySession("teacher", String(s)).rows}
            = {<<m.student_id, m.status, m.first>> : m \in {x \in marks : x.session_id = s}}
    /\ \A row \in summaryByClass("teacher", <<"1">>).rows :
          /\ row.total = Cardinality({m \in marks : m.student_id = row.student_id})
          /\ row.presents = Cardinality({m \in marks : m.student_id = row.student_id
                                                        /\ m.status = present})

\* C26 witness: a call has written the first of its two records, a new row,
\* and not the second, while the reports hold the rows of an earlier commit
C26_Witness ==
    \E p \in Clients :
        /\ pc[p] = "upsert" /\ local[p].i = 2 /\ Len(tx[p].log) = 1
        /\ tx[p].log[1].op = "insert"
        /\ IdOf(rec(p)) # tx[p].log[1].student_id
        /\ reportByStudent(AdminUser, String(IdOf(rec(p)))).rows # {}
        /\ \A r \in Rows(attendance) : r.student_id # tx[p].log[1].student_id

\* the rows of the sessions other than session_id
OtherSessions(table, session_id) == {r \in Rows(table) : r.session_id # session_id}

\* C27: commits for different sessions are independent. A call waits only for
\* a call on its own session, and the store ends a wait only among calls on
\* one session; the COMMIT of a call leaves the rows of every other session
\* as they are, and sets the statuses of its own session to its batch applied
\* to the committed statuses of that session alone, whatever the calls on
\* other sessions have done meanwhile.
C27_SessionsIndependent ==
    /\ [](\A p \in Clients :
            /\ \A q \in Blockers(p) : local[q].sessionIdInt = local[p].sessionIdInt
            /\ (pc[p] = "upsert" /\ p \in WaitsFor(Blockers(p), NumClients)) =>
                  \A q \in WaitsFor(Blockers(p), NumClients) :
                      local[q].sessionIdInt = local[p].sessionIdInt)
    /\ [][\A p \in Clients :
            Commits(p) =>
                /\ OtherSessions(attendance', local[p].sessionIdInt)
                      = OtherSessions(attendance, local[p].sessionIdInt)
                /\ StatusOf(attendance', local[p].sessionIdInt)
                      = SerialApply(StatusOf(attendance, local[p].sessionIdInt), Survivors(p))
       ]_vars

\* C27 witness: two calls on different sessions of one class have each
\* written a row of the same student and neither has committed
C27_Witness ==
    \E p, q \in Clients :
        /\ local[p].sessionIdInt = 1 /\ local[q].sessionIdInt = 2
        /\ sessions[1].class_id = sessions[2].class_id
        /\ pc[p] = "upsert" /\ pc[q] = "commit"
        /\ tx[p].log # <<>> /\ tx[q].log # <<>>
        /\ IdOf(rec(p)) \in {e.student_id : e \in Range(tx[q].log)}
        /\ Blockers(p) = {}

\* the credentials name a user of the table with its password and its role
CorrectLogin(username, password, role) ==
    \E id \in 1..Len(users) :
        users[id].username = username /\ passwordOf(id) = password /\ users[id].role = role

\* the answer of a request made with the token at time t, the store being store
Outcome(store, token, t) == getUserFromRequest(store, token, t).user

\* C28: a token authenticates a request exactly when a successful login
\* issued it, it was not logged out and its expiry time is strictly in the
\* future, and then as the user who logged in; a login answers with a token
\* only for the credentials and the role of a user, and otherwise leaves the
\* session store as it is; at any time from now on, a request has the same
\* outcome whether or not the sweep has just run.
C28_TokenAuthenticates ==
    /\ \A token \in TokenInputs :
          LET user == Outcome(auth.sessions, token, auth.now)
              live == /\ token \in DOMAIN auth.issued
                      /\ token \notin auth.loggedOut
                      /\ auth.issued[token].expiresAt > auth.now
          IN  /\ user # null <=> live
              /\ live => user = auth.issued[token].user
    /\ \A username \in LoginNames, password \in LoginPasswords, role \in LoginRoles,
          fault \in LoginFaults :
          LET r == login(username, password, role, fault)
          IN  /\ r.status = 200 => CorrectLogin(username, password, role)
              /\ r.status = 200 => r.token \notin DOMAIN auth.issued /\ r.token # 0
              /\ r.status # 200 => r.token = 0 /\ r.sessions = auth.sessions
              /\ (CorrectLogin(username, password, role) /\ fault = "none") => r.status = 200
    /\ \A token \in TokenInputs, t \in auth.now..MaxTime :
          Outcome(sweep(auth.sessions, auth.now), token, t) = Outcome(auth.sessions, token, t)

\* C28 witness: the first token was logged out; the second has just reached
\* its expiry time, and the request made with it was answered 401 and has
\* removed it from the store
C28_Witness ==
    /\ auth.loggedOut = {1}
    /\ 2 \in DOMAIN auth.issued /\ auth.issued[2].expiresAt = auth.now
    /\ auth.req = [kind |-> "me", token |-> 2, status |-> 401, user |-> null]
    /\ 2 \notin DOMAIN auth.sessions
    /\ sweep(auth.sessions, auth.now) = auth.sessions

\* C29: every mark-attendance invocation terminates cleanly. The step that
\* ends a call, whichever step failed before, leaves the call with a response
\* sent (201, 400 or 500), its transaction closed and nothing of the request
\* pending; when the call ends from the catch block the response is the
\* store error.
C29_TerminatesCleanly ==
    [][\A p \in Clients :
        (Active(p) /\ ~Active(p)') =>
            /\ pc'[p] = "done"
            /\ res'[p].status \in {201, 400, 500}
            /\ tx'[p] = NoTx
            /\ pc[p] = "catch" => res'[p] = [status |-> 500, error |-> "Database error"]
      ]_vars

\* a text split by the quoting rule into its lines of fields: outside quotes a
\* comma ends a field and a newline ends a line; a quote at the start of a
\* field opens a quoted field, in which a doubled quote is one quote and a
\* single quote closes the field
RECURSIVE SplitCsv(_, _, _, _, _, _)
SplitCsv(text, i, quoted, field, line, lines) ==
    IF i > Len(text) THEN Append(lines, Append(line, field))
    ELSE IF quoted
    THEN IF text[i] # quote
         THEN SplitCsv(text, i + 1, TRUE, Append(field, text[i]), line, lines)
         ELSE IF i < Len(text) /\ text[i + 1] = quote
         THEN SplitCsv(text, i + 2, TRUE, Append(field, quote), line, lines)
         ELSE SplitCsv(text, i + 1, FALSE, field, line, lines)
    ELSE IF text[i] = quote /\ field = <<>>
    THEN SplitCsv(text, i + 1, TRUE, field, line, lines)
    ELSE IF text[i] = comma
    THEN SplitCsv(text, i + 1, FALSE, <<>>, Append(line, field), lines)
    ELSE IF text[i] = newline
    THEN SplitCsv(text, i + 1, FALSE, <<>>, <<>>, Append(lines, Append(line, field)))
    ELSE SplitCsv(text, i + 1, FALSE, Append(field, text[i]), line, lines)

\* the text of a field value: empty for null and undefined
FieldText(value) == IF value.type \in {"null", "undefined"} THEN <<>> ELSE toStr(value)

\* the number of quotes in a text
Quotes(text) == Cardinality({i \in 1..Len(text) : text[i] = quote})

\* C30: csvEscape returns a value without comma, quote and newline as it is
\* (null and undefined as the empty field), and any other value between two
\* quotes with each of its quotes doubled; the exported text, split by the
\* quoting rule, is the header and the original field values, one per column.
C30_CsvEscapeRoundTrip ==
    /\ \A value \in Values :
          LET str == FieldText(value)
              out == csvEscape(value)
              inner == SubSeq(out, 2, Len(out) - 1)
          IN  IF \A i \in 1..Len(str) : str[i] \notin {quote, comma, newline}
              THEN out = str
              ELSE /\ Len(out) = Len(str) + Quotes(str) + 2
                   /\ out[1] = quote /\ out[Len(out)] = quote
                   /\ Quotes(inner) = 2 * Quotes(str)
                   /\ SelectSeq(inner, LAMBDA c : c # quote) = SelectSeq(str, LAMBDA c : c # quote)
    /\ cell.done =>
          SplitCsv(cell.text, 1, FALSE, <<>>, <<>>, <<>>)
             = <<headerOf(Len(cell.cols)),
                 [c \in 1..Len(cell.cols) |-> FieldText(cell.cols[c])]>>

\* C30 witness: a row was exported whose first value holds a quote and a
\* comma and whose second value is null
C30_Witness ==
    /\ cell.done /\ Len(cell.cols) = 2
    /\ cell.cols[1].str = <<quote, comma>>
    /\ cell.cols[2].type = "null"
    /\ cell.text = <<"H", comma, "H", newline, quote, quote, quote, comma, quote, comma>>

====
